---- MODULE Spec2Model ----
(***************************************************************************)
(* Model of the two algorithmic parts of the backend:                      *)
(*   - app/risk/risk_engine.py : RiskEngine.assess_task_risk and helpers   *)
(*   - app/ml/extraction.py    : HybridExtractionPipeline                  *)
(* and of the requests that write the Task table and the graph:            *)
(*   - app/api/meetings.py     : upload_meeting                            *)
(*   - app/api/tasks.py        : get_overdue_tasks, update_task            *)
(*   - app/graph/neo4j_client.py : the nodes and relationships they merge  *)
(*                                                                         *)
(* Conventions.  A Python Optional[x] is a set: {} is None, {v} is the     *)
(* value v.  Timestamps are integers.  Confidence scores are integers in   *)
(* hundredths (0.6 is 60, 1.0 is 100).  Strings are TLA+ strings; lower()  *)
(* works character by character and len() is the length of the string.     *)
(***************************************************************************)
EXTENDS Integers, Sequences, FiniteSets, TLC

VARIABLES
    store,                \* rows of the Task table the db session reads
    now,                  \* datetime.utcnow()
    SENTIMENT_AVAILABLE,  \* module flag of risk_engine.py
    db_session,           \* RiskEngine.db_session: TRUE a session, FALSE None
    assessment,           \* <<>> before the call, <<r>> once assess_task_risk ran
    nlp,                  \* HybridExtractionPipeline.nlp is loaded
    ollama_available,     \* HybridExtractionPipeline.ollama_available
    extraction,           \* <<>> before the call, <<r>> once extract_from_segments ran
    uploads,              \* the requests to upload_meeting, each with its progress
    graph,                \* the nodes and relationships of the Neo4j database
    updates               \* the requests to update_task served so far

vars == <<store, now, SENTIMENT_AVAILABLE, db_session, assessment,
          nlp, ollama_available, extraction, uploads, graph, updates>>

riskVars == <<store, now, SENTIMENT_AVAILABLE, db_session, assessment>>
extractVars == <<nlp, ollama_available, extraction>>
serviceVars == <<uploads, graph, updates>>

(***************************************************************************)
(* Bounds of the model.                                                    *)
(***************************************************************************)
MaxStore == 3        \* rows in the Task table
MaxTime == 2         \* the clock runs over 0..MaxTime
SomeDeadline == 1    \* the one timestamp used as a deadline
MaxRaw == 2          \* matches of the task patterns in one text
MaxRawDecisions == 1 \* matches of the decision patterns in one text
MaxSegments == 2     \* segments in one call of extract_from_segments
MaxScan == 11        \* rows ahead of the last rows of a long Task table
MaxUploads == 2      \* requests to upload_meeting
MaxBatch == 2        \* tasks extracted from one upload
MaxUpdates == 1      \* requests to update_task

RECURSIVE SeqsUpTo(_, _)
SeqsUpTo(S, n) ==
    IF n = 0 THEN {<<>>}
    ELSE LET shorter == SeqsUpTo(S, n - 1)
         IN  shorter \cup {Append(s, x) : s \in {t \in shorter : Len(t) = n - 1}, x \in S}

(***************************************************************************)
(* Python values.                                                          *)
(***************************************************************************)
None == {}
Some(v) == {v}
The(opt) == CHOOSE v \in opt : TRUE

\* bool(x) of an Optional[str]: None and "" are falsy
Truthy(opt) == opt # {} /\ opt # {""}

\* the capital letters the texts of the model use
UpperCase ==
    {"A", "B", "C", "D", "E", "F", "G", "H", "I", "J", "K", "L", "M",
     "N", "O", "P", "Q", "R", "S", "T", "U", "V", "W", "X", "Y", "Z"}

\* str.lower() on one character
LowerChar(c) ==
    IF c \notin UpperCase THEN c
    ELSE CASE c = "A" -> "a" [] c = "B" -> "b" [] c = "C" -> "c" [] c = "D" -> "d"
           [] c = "E" -> "e" [] c = "F" -> "f" [] c = "G" -> "g" [] c = "H" -> "h"
           [] c = "I" -> "i" [] c = "J" -> "j" [] c = "K" -> "k" [] c = "L" -> "l"
           [] c = "M" -> "m" [] c = "N" -> "n" [] c = "O" -> "o" [] c = "P" -> "p"
           [] c = "Q" -> "q" [] c = "R" -> "r" [] c = "S" -> "s" [] c = "T" -> "t"
           [] c = "U" -> "u" [] c = "V" -> "v" [] c = "W" -> "w" [] c = "X" -> "x"
           [] c = "Y" -> "y" [] c = "Z" -> "z"

\* str.lower(), character by character (one half of s after the other)
RECURSIVE LowerByChar(_)
LowerByChar(s) ==
    IF Len(s) <= 1 THEN LowerChar(s)
    ELSE LET mid == Len(s) \div 2
         IN  LowerByChar(SubSeq(s, 1, mid)) \o LowerByChar(SubSeq(s, mid + 1, Len(s)))

\* texts that are lowered at every step, each with its lower case, which is
\* computed once for them
LoweredTexts ==
    [ s \in {"", "None", "NONE", "alice", "Fix the login bug", "Update the docs",
               "fix the login bugs", "fix the login data path", "Send the report", "send the report", "call Bob",
               "SEND THE REPORT", "to migrate to the new vendor", "We ship Friday",
               "migrate to the new vendor going forward", "send it by email",
               "We decided to migrate to the new vendor going forward.",
               "We need to send it by email, due Friday.",
               "Alice will send the report.", "We must call Bob.",
               "Bob should SEND THE REPORT by Friday.",
               "We will fix it, Bob will test it.", "We need to call Bob, Alice will help.",
               "Alice must sign. We will ship, Bob will ship.", "Alice must sign.",
               "We will ship, Bob will ship.", "We agreed to pay, we decided to wait.",
               "fix it", "test it", "help", "sign", "ship", "wait", "pay",
               "fix it, Bob will test it.", "ship, Bob will ship."} |-> LowerByChar(s) ]

\* str.lower()
Lower(s) == IF s \in DOMAIN LoweredTexts THEN LoweredTexts[s] ELSE LowerByChar(s)

\* len(str)
StrLen(s) == Len(s)

(***************************************************************************)
(* risk_engine.py                                                          *)
(***************************************************************************)
max_score == 100

Categories == {"assignee_risk", "deadline_risk", "sentiment_risk",
               "repetition_risk", "historical_risk"}

\* score = 0, factors = [], breakdown = {...: 0}
EmptyTally == [score |-> 0, factors |-> <<>>, breakdown |-> [c \in Categories |-> 0]]

\* Award without "score += points"
AwardForgetsScore(tally, cat, name, points) ==
    [score |-> tally.score,
     factors |-> Append(tally.factors, [factor |-> name, points |-> points]),
     breakdown |-> [tally.breakdown EXCEPT ![cat] = points]]

\* Award with factors.insert(0, {...}) in place of factors.append({...})
AwardPrepend(tally, cat, name, points) ==
    [score |-> tally.score + points,
     factors |-> <<[factor |-> name, points |-> points]>> \o tally.factors,
     breakdown |-> [tally.breakdown EXCEPT ![cat] = points]]

\* score += points; breakdown[cat] = points; factors.append({...})
Award(tally, cat, name, points) ==
    [score |-> tally.score + points,
     factors |-> Append(tally.factors, [factor |-> name, points |-> points]),
     breakdown |-> [tally.breakdown EXCEPT ![cat] = points]]

\* sum(t.size for t in SequenceMatcher(None, a, b).get_matching_blocks()),
\* of the lower-cased descriptions (difflib is not symmetric in a and b)
MatchingChars(a, b) ==
    CASE a = b -> StrLen(a)
      [] a = "fix the login bug" /\ b = "fix the login bugs" -> 17
      [] a = "fix the login bugs" /\ b = "fix the login bug" -> 17
      [] a = "fix the login bug" /\ b = "update the docs" -> 6
      [] a = "update the docs" /\ b = "fix the login bug" -> 6
      [] a = "fix the login bugs" /\ b = "update the docs" -> 7
      [] a = "update the docs" /\ b = "fix the login bugs" -> 7
      [] a = "fix the login bug" /\ b = "fix the login data path" -> 14
      [] a = "update the docs" /\ b = "fix the login data path" -> 6
      [] OTHER -> 0

\* SequenceMatcher.ratio() > 0.7, the ratio being 2.0 * matches / (len(a) + len(b))
\* and 1.0 for two empty strings
SimilarityAbove70(a, b) ==
    LET total == StrLen(a) + StrLen(b)
    IN  IF total = 0 THEN TRUE
        ELSE 2 * MatchingChars(a, b) * 10 > 7 * total

\* the first n elements of a sequence: .limit(n)
Limit(s, n) == IF Len(s) <= n THEN s ELSE SubSeq(s, 1, n)

\* a raised exception that nothing caught
Raised == [raised |-> TRUE, value |-> 0]
Returned(v) == [raised |-> FALSE, value |-> v]

\* AssessSentiment without its try/except
AssessSentimentUncaught(outcome) ==
    IF outcome = "error" THEN Raised
    ELSE IF outcome = "NEGATIVE" THEN Returned(20) ELSE Returned(0)

\* RiskEngine._assess_sentiment; outcome is what sentiment_pipeline(text[:512]) did
AssessSentiment(outcome) ==
    IF outcome = "error" THEN Returned(0)
    ELSE IF outcome = "NEGATIVE" THEN Returned(20) ELSE Returned(0)

\* the loop of _check_repetition from past_tasks[i] on: 15 at the first task
\* that is similar and pending or in progress, 0 when the list is exhausted;
\* examined counts the tasks the loop has compared
RECURSIVE ScanPastTasks(_, _, _)
ScanPastTasks(past_tasks, task_desc, i) ==
    IF i > Len(past_tasks) THEN [value |-> 0, examined |-> Len(past_tasks)]
    ELSE IF /\ SimilarityAbove70(Lower(task_desc), Lower(past_tasks[i].task_description))
            /\ past_tasks[i].status \in {"pending", "in_progress"}
         THEN [value |-> 15, examined |-> i]
         ELSE ScanPastTasks(past_tasks, task_desc, i + 1)

\* select(Task).where(Task.id != current_task_id).limit(10)
PastTasks(rows, current_task_id) ==
    Limit(SelectSeq(rows, LAMBDA t : t.id # current_task_id), 10)

\* CheckRepetition without .limit(10)
CheckRepetitionUnlimited(session, rows, task_desc, current_task_id, queryFails) ==
    IF ~session THEN Returned(0)
    ELSE IF queryFails THEN Returned(0)
    ELSE Returned(ScanPastTasks(SelectSeq(rows, LAMBDA t : t.id # current_task_id),
                                task_desc, 1).value)

\* CheckRepetition without its try/except
CheckRepetitionUncaught(session, rows, task_desc, current_task_id, queryFails) ==
    IF ~session THEN Returned(0)
    ELSE IF queryFails THEN Raised
    ELSE Returned(ScanPastTasks(PastTasks(rows, current_task_id), task_desc, 1).value)

\* RiskEngine._check_repetition; queryFails: db_session.execute raised
CheckRepetition(session, rows, task_desc, current_task_id, queryFails) ==
    IF ~session THEN Returned(0)
    ELSE IF queryFails THEN Returned(0)
    ELSE Returned(ScanPastTasks(PastTasks(rows, current_task_id), task_desc, 1).value)

\* CheckHistoricalDelays with the two thresholds at 2 and 1
CheckHistoricalDelaysFromTwo(session, rows, assignee, queryFails) ==
    IF ~session THEN Returned(0)
    ELSE IF queryFails THEN Returned(0)
    ELSE LET overdue_count ==
                 Len(SelectSeq(rows, LAMBDA t : t.assignee = Some(assignee)
                                                 /\ t.status = "overdue"))
         IN  IF overdue_count >= 2 THEN Returned(10)
             ELSE IF overdue_count >= 1 THEN Returned(5)
             ELSE Returned(0)

\* RiskEngine._check_historical_delays; queryFails: db_session.execute raised
CheckHistoricalDelays(session, rows, assignee, queryFails) ==
    IF ~session THEN Returned(0)
    ELSE IF queryFails THEN Returned(0)
    ELSE LET overdue_count ==
                 Len(SelectSeq(rows, LAMBDA t : t.assignee = Some(assignee)
                                                 /\ t.status = "overdue"))
         IN  IF overdue_count >= 3 THEN Returned(10)
             ELSE IF overdue_count >= 1 THEN Returned(5)
             ELSE Returned(0)

\* GetRiskLevel with < for <=
GetRiskLevelOffByOne(score) ==
    IF score < 30 THEN "Low"
    ELSE IF score < 60 THEN "Medium"
    ELSE IF score < 85 THEN "High"
    ELSE "Critical"

\* RiskEngine._get_risk_level
GetRiskLevel(score) ==
    IF score <= 30 THEN "Low"
    ELSE IF score <= 60 THEN "Medium"
    ELSE IF score <= 85 THEN "High"
    ELSE "Critical"

\* FactorAssignee comparing the assignee with "none" as it is written
FactorAssigneeCaseSensitive(tally, assignee) ==
    IF ~Truthy(assignee) \/ The(assignee) = "none"
    THEN Award(tally, "assignee_risk", "No Assignee", 30)
    ELSE tally

\* Factor 1: Missing assignee
FactorAssignee(tally, assignee) ==
    IF ~Truthy(assignee) \/ Lower(The(assignee)) = "none"
    THEN Award(tally, "assignee_risk", "No Assignee", 30)
    ELSE tally

\* FactorDeadline with the points of its two factors exchanged
FactorDeadlineSwapped(tally, deadline, clock) ==
    IF deadline = None
    THEN Award(tally, "deadline_risk", "No Deadline", 35)
    ELSE IF The(deadline) < clock
         THEN Award(tally, "deadline_risk", "Deadline Passed", 25)
         ELSE tally

\* FactorDeadline with "<=" in place of "<"
FactorDeadlineAtOrBefore(tally, deadline, clock) ==
    IF deadline = None
    THEN Award(tally, "deadline_risk", "No Deadline", 25)
    ELSE IF The(deadline) <= clock
         THEN Award(tally, "deadline_risk", "Deadline Passed", 35)
         ELSE tally

\* FactorDeadline with the past-deadline test outside the else branch, a
\* missing deadline counting as elapsed
FactorDeadlineBoth(tally, deadline, clock) ==
    LET missing == IF deadline = None
                   THEN Award(tally, "deadline_risk", "No Deadline", 25)
                   ELSE tally
    IN  IF deadline = None \/ The(deadline) < clock
        THEN Award(missing, "deadline_risk", "Deadline Passed", 35)
        ELSE missing

\* Factor 2: Missing deadline, or deadline in the past
FactorDeadline(tally, deadline, clock) ==
    IF deadline = None
    THEN Award(tally, "deadline_risk", "No Deadline", 25)
    ELSE IF The(deadline) < clock
         THEN Award(tally, "deadline_risk", "Deadline Passed", 35)
         ELSE tally

\* AwardIfPositive without the "> 0" test
AwardAlways(tally, cat, name, points) == Award(tally, cat, name, points)

\* AwardIfPositive that adds the points to those the category already has
AwardOnTop(tally, cat, name, points) ==
    IF points > 0
    THEN Award(tally, cat, name, points + tally.breakdown["assignee_risk"])
    ELSE tally

\* Factors 3..5 share one shape: award the points a helper returned when > 0
AwardIfPositive(tally, cat, name, points) ==
    IF points > 0 THEN Award(tally, cat, name, points) ELSE tally

\* FinalScore without the min
FinalScoreUnclamped(score) == score

\* final_score = min(score, self.max_score)
FinalScore(score) == IF score < max_score THEN score ELSE max_score

\* RiskEngine.assess_task_risk.  env holds what the outside world did during the
\* call: sentiment (the classifier's outcome), repFails and histFails (the two
\* queries raised).
AssessTaskRisk(task_data, session, rows, clock, sentimentAvailable, env) ==
    LET task_id == task_data.task_id
        task_desc == task_data.task_description
        assignee == task_data.assignee
        deadline == task_data.deadline
        t1 == FactorAssignee(EmptyTally, assignee)
        t2 == FactorDeadline(t1, deadline, clock)
        sent == IF sentimentAvailable /\ task_desc # ""
                THEN AssessSentiment(env.sentiment) ELSE Returned(0)
        t3 == AwardIfPositive(t2, "sentiment_risk", "Negative Sentiment Detected", sent.value)
        rep == IF session
               THEN CheckRepetition(session, rows, task_desc, task_id, env.repFails)
               ELSE Returned(0)
        t4 == AwardIfPositive(t3, "repetition_risk", "Topic Repeated", rep.value)
        hist == IF session /\ Truthy(assignee)
                THEN CheckHistoricalDelays(session, rows, The(assignee), env.histFails)
                ELSE Returned(0)
        t5 == AwardIfPositive(t4, "historical_risk", "Assignee History of Delays", hist.value)
        \* an uncaught exception leaves the call at the first helper that raised
        raised == sent.raised \/ rep.raised \/ hist.raised
        final_score == FinalScore(t5.score)
    IN  [raised |-> raised,
         task_id |-> task_id,
         score |-> t5.score,
         risk_score |-> final_score,
         risk_level |-> GetRiskLevel(final_score),
         risk_factors |-> t5.factors,
         total_risk_breakdown |-> t5.breakdown,
         assessment_timestamp |-> clock]

(***************************************************************************)
(* extraction.py                                                           *)
(***************************************************************************)
\* the text of a candidate: item.get("task") or item.get("decision", "")
TextOf(item) == IF item.type = "task" THEN item.task ELSE item.decision

\* Deduplicate with the text itself as the key: key = task["task"]
RECURSIVE DeduplicateCaseSensitive(_, _)
DeduplicateCaseSensitive(items, seen) ==
    IF items = <<>> THEN <<>>
    ELSE LET key == TextOf(Head(items))
         IN  IF key \in seen
             THEN DeduplicateCaseSensitive(Tail(items), seen)
             ELSE <<Head(items)>> \o DeduplicateCaseSensitive(Tail(items), seen \cup {key})

\* Deduplicate that puts each new item in front of the ones it kept
RECURSIVE DeduplicateReversed(_, _)
DeduplicateReversed(items, seen) ==
    IF items = <<>> THEN <<>>
    ELSE LET key == Lower(TextOf(Head(items)))
         IN  IF key \in seen
             THEN DeduplicateReversed(Tail(items), seen)
             ELSE DeduplicateReversed(Tail(items), seen \cup {key}) \o <<Head(items)>>

\* "Deduplicate by task text": the first item of each lower-cased text is kept
RECURSIVE Deduplicate(_, _)
Deduplicate(items, seen) ==
    IF items = <<>> THEN <<>>
    ELSE LET key == Lower(TextOf(Head(items)))
         IN  IF key \in seen
             THEN Deduplicate(Tail(items), seen)
             ELSE <<Head(items)>> \o Deduplicate(Tail(items), seen \cup {key})

\* HybridExtractionPipeline._detect_tasks_rules, from the matches its patterns
\* found (the list tasks before "Deduplicate by task text")
DetectTasksRules(matches) == Deduplicate(matches, {})

\* HybridExtractionPipeline._detect_decisions_rules, from the matches found
DetectDecisionsRules(matches) == Deduplicate(matches, {})

\* {ent.label_: ent.text for ent in self.nlp(text).ents}, as label-text pairs
Entities(text) == IF text = "call Bob" THEN {<<"PERSON", "Bob">>} ELSE {}

\* EnrichWithSpacy that also scores a candidate in which it found an entity
EnrichWithSpacyScoring(items, doc) ==
    IF ~doc THEN items
    ELSE [i \in 1..Len(items) |->
             [entities |-> Entities(TextOf(items[i])), spacy_processed |-> TRUE]
             @@ [items[i] EXCEPT !.confidence_score =
                     IF Entities(TextOf(items[i])) # {} THEN 90 ELSE @]]

\* HybridExtractionPipeline._enrich_with_spacy; doc: the parsed text is truthy
EnrichWithSpacy(items, doc) ==
    IF ~doc THEN items
    ELSE [i \in 1..Len(items) |->
             [entities |-> Entities(TextOf(items[i])), spacy_processed |-> TRUE] @@ items[i]]

\* CalculateConfidence without the bonus for the length of the text
CalculateConfidenceNoLengthBonus(item, item_type) ==
    LET score ==
            IF item_type = "task"
            THEN 60 + (IF Truthy(item.assignee) THEN 15 ELSE 0)
                    + (IF item.deadline # None THEN 15 ELSE 0)
            ELSE 60
    IN  IF score < 100 THEN score ELSE 100

\* HybridExtractionPipeline._calculate_confidence, in hundredths
CalculateConfidence(item, item_type) ==
    LET score ==
            IF item_type = "task"
            THEN 60 + (IF Truthy(item.assignee) THEN 15 ELSE 0)
                    + (IF item.deadline # None THEN 15 ELSE 0)
                    + (IF StrLen(item.task) > 10 THEN 10 ELSE 0)
            ELSE 60 + (IF StrLen(item.decision) > 15 THEN 20 ELSE 0)
    IN  IF score < 100 THEN score ELSE 100

\* HybridExtractionPipeline._set_fallback_confidence
SetFallbackConfidence(item, item_type) ==
    [item EXCEPT !.confidence_score = CalculateConfidence(item, item_type)]

\* What one call of subprocess.run(["ollama", "run", "llama2", prompt]) does:
\*   timeout, transport : the call raises (TimeoutExpired, OSError)
\*   exit               : returncode # 0
\*   notjson            : returncode 0, stdout is not JSON
\*   nonobject          : returncode 0, stdout is JSON but no object
\*   object             : returncode 0, stdout is a JSON object; confidence and
\*                        valid are the fields it has (None: the key is missing)
OracleOutcomes ==
    { [kind |-> "timeout", confidence |-> None, valid |-> None],
      [kind |-> "transport", confidence |-> None, valid |-> None],
      [kind |-> "exit", confidence |-> None, valid |-> None],
      [kind |-> "notjson", confidence |-> None, valid |-> None],
      [kind |-> "nonobject", confidence |-> None, valid |-> None],
      [kind |-> "object", confidence |-> None, valid |-> Some(FALSE)],
      [kind |-> "object", confidence |-> Some(30), valid |-> Some(TRUE)],
      [kind |-> "object", confidence |-> Some(150), valid |-> Some(TRUE)] }

\* ValidateItem whose failure branch leaves the candidate as it was created
ValidateItemKeepsPlaceholder(item, item_type, outcome) ==
    IF outcome.kind = "object"
    THEN [llama_validation |-> IF outcome.valid = None THEN TRUE ELSE The(outcome.valid)]
         @@ [item EXCEPT !.confidence_score =
                 IF outcome.confidence = None THEN 70 ELSE The(outcome.confidence)]
    ELSE item

\* the body of "for item in items" for one item whose call returned
ValidateItem(item, item_type, outcome) ==
    IF outcome.kind = "object"
    THEN [llama_validation |-> IF outcome.valid = None THEN TRUE ELSE The(outcome.valid)]
         @@ [item EXCEPT !.confidence_score =
                 IF outcome.confidence = None THEN 70 ELSE The(outcome.confidence)]
    ELSE [item EXCEPT !.confidence_score = CalculateConfidence(item, item_type)]

\* the loop of _validate_with_llama from item i on; calls lists the items
\* submitted to the oracle, in order; raised: subprocess.run raised at an item
RECURSIVE ValidateLoop(_, _, _, _, _)
ValidateLoop(items, item_type, oracle, i, calls) ==
    IF i > Len(items) THEN [raised |-> FALSE, items |-> items, calls |-> calls]
    ELSE IF oracle[i].kind \in {"timeout", "transport"}
         THEN [raised |-> TRUE, items |-> items, calls |-> Append(calls, i)]
         ELSE ValidateLoop([items EXCEPT ![i] = ValidateItem(items[i], item_type, oracle[i])],
                           item_type, oracle, i + 1, Append(calls, i))

\* ValidateWithLlama without its outer try/except
ValidateWithLlamaUncaught(items, item_type, oracle) ==
    ValidateLoop(items, item_type, oracle, 1, <<>>)

\* HybridExtractionPipeline._validate_with_llama; oracle[i] is the outcome of
\* the call made for items[i]
ValidateWithLlama(items, item_type, oracle) ==
    LET run == ValidateLoop(items, item_type, oracle, 1, <<>>)
    IN  IF run.raised
        THEN [raised |-> FALSE,
              items |-> [i \in 1..Len(run.items) |-> SetFallbackConfidence(run.items[i], item_type)],
              calls |-> run.calls]
        ELSE run

\* the else branch of step 3: "Use pattern confidence as fallback"
FallbackAll(items, item_type) ==
    [raised |-> FALSE,
     items |-> [i \in 1..Len(items) |-> SetFallbackConfidence(items[i], item_type)],
     calls |-> <<>>]

\* HybridExtractionPipeline.extract_from_segments, from the matches the task and
\* decision patterns found in the joined text
ExtractFromSegments(taskMatches, decisionMatches, nlpLoaded, ollamaAvailable, taskOracle, decisionOracle) ==
    LET rule_based_tasks == DetectTasksRules(taskMatches)
        rule_based_decisions == DetectDecisionsRules(decisionMatches)
        \* a parsed text with no token is falsy, and then there is no match either
        doc == nlpLoaded
        tasks == EnrichWithSpacy(rule_based_tasks, doc)
        decisions == EnrichWithSpacy(rule_based_decisions, doc)
        vt == IF ollamaAvailable THEN ValidateWithLlama(tasks, "task", taskOracle)
              ELSE FallbackAll(tasks, "task")
        \* an exception out of the first validation leaves the call
        vd == IF vt.raised THEN [raised |-> TRUE, items |-> decisions, calls |-> <<>>]
              ELSE IF ollamaAvailable
                   THEN ValidateWithLlama(decisions, "decision", decisionOracle)
                   ELSE FallbackAll(decisions, "decision")
    IN  [raised |-> vt.raised \/ vd.raised,
         tasks |-> vt.items,
         decisions |-> vd.items,
         metadata |-> [rule_based_tasks_found |-> Len(rule_based_tasks),
                       rule_based_decisions_found |-> Len(rule_based_decisions),
                       ollama_validation_used |-> ollamaAvailable],
         task_calls |-> vt.calls,
         decision_calls |-> vd.calls]

(***************************************************************************)
(* re: the patterns of extraction.py as syntax trees, matched the way      *)
(* Python's backtracking matcher does.  For re.IGNORECASE the patterns are *)
(* written in lower case and matched against the lower-cased text; the     *)
(* groups are cut out of the text itself.                                  *)
(***************************************************************************)
\* literal text, written in lower case
Lit(s) == [op |-> "lit", s |-> s]
\* c+ (greedy), c*? (lazy) for a character class c
Plus(c) == [op |-> "plus", c |-> c]
LazyStar(c) == [op |-> "lazystar", c |-> c]
\* (?:n)?
Opt(n) == [op |-> "opt", arg |-> n]
\* (?:a|b|...)
Alt(ns) == [op |-> "alt", args |-> ns]
\* the concatenation of the nodes ns
Cat(ns) == [op |-> "cat", args |-> ns]
\* (n), the capture group
Capture(n) == [op |-> "group", arg |-> n]
\* $
EndOfString == [op |-> "end"]
\* (?<=[c])
Behind(c) == [op |-> "behind", c |-> c]

\* the character at index i of t (1-based), "" outside t
Char(t, i) == IF i >= 1 /\ i <= Len(t) THEN SubSeq(t, i, i) ELSE ""

WordChars ==
    {"a", "b", "c", "d", "e", "f", "g", "h", "i", "j", "k", "l", "m", "n", "o", "p", "q",
     "r", "s", "t", "u", "v", "w", "x", "y", "z", "0", "1", "2", "3", "4", "5", "6", "7",
     "8", "9", "_"}

\* the character classes of the patterns, for a character of a lower-cased
\* text: \s, \w, ., ['s], [^,.\n], [.!?]
InClass(ch, c) ==
    /\ ch # ""
    /\ CASE c = "\\s" -> ch \in {" ", "\t", "\n", "\r", "\f"}
         [] c = "\\w" -> ch \in WordChars
         [] c = "." -> ch # "\n"
         [] c = "['s]" -> ch \in {"'", "s"}
         [] c = "[^,.\\n]" -> ch \notin {",", ".", "\n"}
         [] c = "[.!?]" -> ch \in {".", "!", "?"}

\* the first index in lo..hi whose character is not of class c, hi + 1 if none
RECURSIVE FirstOutside(_, _, _, _)
FirstOutside(t, lo, hi, c) ==
    IF lo > hi THEN lo
    ELSE IF lo = hi THEN (IF InClass(Char(t, lo), c) THEN lo + 1 ELSE lo)
    ELSE LET mid == (lo + hi) \div 2
             left == FirstOutside(t, lo, mid, c)
         IN  IF left <= mid THEN left ELSE FirstOutside(t, mid + 1, hi, c)

\* the number of consecutive characters of class c from index i on
RunLength(t, i, c) == FirstOutside(t, i, Len(t), c) - i

\* a state of the matcher: the next index to read and the bounds of group 1
MatchState(pos) == [pos |-> pos, group_start |-> 0, group_end |-> 0]

\* Ends(node, t, st): the states in which node can end when matched from state
\* st, in the order the backtracking matcher tries them
RECURSIVE Ends(_, _, _)
RECURSIVE EndsOfAlt(_, _, _)
RECURSIVE EndsOfCat(_, _, _)
RECURSIVE EndsFromAll(_, _, _, _, _)
Ends(node, t, st) ==
    CASE node.op = "lit" ->
           LET last == st.pos + Len(node.s) - 1
           IN  IF last <= Len(t) /\ SubSeq(t, st.pos, last) = node.s
               THEN << [st EXCEPT !.pos = last + 1] >>
               ELSE << >>
      [] node.op = "plus" ->
           LET n == RunLength(t, st.pos, node.c)
           IN  [k \in 1..n |-> [st EXCEPT !.pos = st.pos + (n - k + 1)]]
      [] node.op = "lazystar" ->
           LET n == RunLength(t, st.pos, node.c)
           IN  [k \in 1..(n + 1) |-> [st EXCEPT !.pos = st.pos + (k - 1)]]
      [] node.op = "opt" -> Ends(node.arg, t, st) \o << st >>
      [] node.op = "alt" -> EndsOfAlt(node.args, t, st)
      [] node.op = "cat" -> EndsOfCat(node.args, t, << st >>)
      [] node.op = "group" ->
           LET inner == Ends(node.arg, t, st)
           IN  [k \in 1..Len(inner) |->
                   [inner[k] EXCEPT !.group_start = st.pos, !.group_end = inner[k].pos]]
      [] node.op = "end" ->
           IF st.pos = Len(t) + 1 \/ (st.pos = Len(t) /\ Char(t, st.pos) = "\n")
           THEN << st >> ELSE << >>
      [] node.op = "behind" ->
           IF InClass(Char(t, st.pos - 1), node.c) THEN << st >> ELSE << >>

EndsOfAlt(nodes, t, st) ==
    IF nodes = << >> THEN << >>
    ELSE Ends(Head(nodes), t, st) \o EndsOfAlt(Tail(nodes), t, st)

EndsOfCat(nodes, t, sts) ==
    IF nodes = << >> THEN sts
    ELSE EndsOfCat(Tail(nodes), t, EndsFromAll(Head(nodes), t, sts, 1, Len(sts)))

\* the ends of node from each state of sts[lo..hi], in that order
EndsFromAll(node, t, sts, lo, hi) ==
    IF lo > hi THEN << >>
    ELSE IF lo = hi THEN Ends(node, t, sts[lo])
    ELSE LET mid == (lo + hi) \div 2
         IN  EndsFromAll(node, t, sts, lo, mid) \o EndsFromAll(node, t, sts, mid + 1, hi)

NoMatch == [found |-> FALSE, start |-> 0, stop |-> 0, group_start |-> 0, group_end |-> 0]

\* the first match of pattern that starts at an index in lo..hi
RECURSIVE FirstMatch(_, _, _, _)
FirstMatch(pattern, t, lo, hi) ==
    IF lo > hi THEN NoMatch
    ELSE IF lo = hi
         THEN LET ends == Ends(pattern, t, MatchState(lo))
              IN  IF ends = << >> THEN NoMatch
                  ELSE [found |-> TRUE, start |-> lo, stop |-> Head(ends).pos,
                        group_start |-> Head(ends).group_start,
                        group_end |-> Head(ends).group_end]
         ELSE LET mid == (lo + hi) \div 2
                  left == FirstMatch(pattern, t, lo, mid)
              IN  IF left.found THEN left ELSE FirstMatch(pattern, t, mid + 1, hi)

\* re.search(pattern, t) from index from on: the leftmost match, and there the
\* first the matcher finds
Search(pattern, t, from) == FirstMatch(pattern, t, from, Len(t) + 1)

\* match.group(1), cut out of the text whose lower-cased form was matched
Group(match, text) == SubSeq(text, match.group_start, match.group_end - 1)

\* re.finditer(pattern, t): the matches from left to right, none overlapping
RECURSIVE FindIter(_, _, _)
FindIter(pattern, t, from) ==
    LET m == Search(pattern, t, from)
    IN  IF ~m.found THEN << >>
        ELSE << m >> \o FindIter(pattern, t, IF m.stop > m.start THEN m.stop ELSE m.stop + 1)

\* str.strip()
RECURSIVE Strip(_)
Strip(s) ==
    IF s = "" THEN ""
    ELSE IF InClass(Char(s, 1), "\\s") THEN Strip(SubSeq(s, 2, Len(s)))
    ELSE IF InClass(Char(s, Len(s)), "\\s") THEN Strip(SubSeq(s, 1, Len(s) - 1))
    ELSE s

\* the pieces of t between the matches ms, from index from on
RECURSIVE Pieces(_, _, _)
Pieces(t, ms, from) ==
    IF ms = << >> THEN << SubSeq(t, from, Len(t)) >>
    ELSE << SubSeq(t, from, Head(ms).start - 1) >> \o Pieces(t, Tail(ms), Head(ms).stop)

\* re.split(r"(?<=[.!?])\s+", text)
SplitSentences(text) ==
    Pieces(text, FindIter(Cat(<< Behind("[.!?]"), Plus("\\s") >>), Lower(text), 1), 1)

\* (\w+.*?) and (.*?)
WordThenLazy == Capture(Cat(<< Plus("\\w"), LazyStar(".") >>))
Lazy == Capture(LazyStar("."))

TASK_PATTERNS ==
    << Cat(<< Alt(<< Lit("will"), Lit("gonna") >>), Plus("\\s"), WordThenLazy,
              Alt(<< Lit("."), Lit(","), EndOfString >>) >>),
       Cat(<< Lit("let"), Plus("['s]"), Plus("\\s"), WordThenLazy,
              Alt(<< Lit("."), Lit(","), EndOfString >>) >>),
       Cat(<< Alt(<< Lit("assigned to"), Lit("assigned:") >>), Plus("\\s"),
              Capture(Plus("\\w")) >>),
       Cat(<< Alt(<< Lit("should"), Lit("must") >>), Plus("\\s"), WordThenLazy,
              Alt(<< Lit("."), Lit(","), Lit("by"), EndOfString >>) >>),
       Cat(<< Alt(<< Lit("need to"), Lit("need") >>), Plus("\\s"), WordThenLazy,
              Alt(<< Lit("."), Lit(","), EndOfString >>) >>) >>

\* DECISION_PATTERNS whose first pattern also ends at "going forward"
DecisionPatternsEndingAtGoingForward ==
    << Cat(<< Opt(Lit("we ")), Lit("decided"), Plus("\\s"),
              Alt(<< Lit("to"), Lit("that") >>), Plus("\\s"), Lazy,
              Alt(<< Lit("going forward"), Lit("."), Lit(","), EndOfString >>) >>),
       Cat(<< Lit("agreed"), Plus("\\s"), Opt(Alt(<< Lit("to"), Lit("that"), Lit("on") >>)),
              Plus("\\s"), Lazy, Alt(<< Lit("."), Lit(","), EndOfString >>) >>),
       Cat(<< Lit("we will"), Plus("\\s"), Lazy,
              Alt(<< Lit("going forward"), Lit("from now on"), EndOfString >>) >>),
       Cat(<< Alt(<< Lit("moving forward"), Lit("henceforth") >>), Opt(Lit(",")),
              Plus("\\s"), Lazy, Alt(<< Lit("."), EndOfString >>) >>) >>

DECISION_PATTERNS ==
    << Cat(<< Opt(Lit("we ")), Lit("decided"), Plus("\\s"),
              Alt(<< Lit("to"), Lit("that") >>), Plus("\\s"), Lazy,
              Alt(<< Lit("."), Lit(","), EndOfString >>) >>),
       Cat(<< Lit("agreed"), Plus("\\s"), Opt(Alt(<< Lit("to"), Lit("that"), Lit("on") >>)),
              Plus("\\s"), Lazy, Alt(<< Lit("."), Lit(","), EndOfString >>) >>),
       Cat(<< Lit("we will"), Plus("\\s"), Lazy,
              Alt(<< Lit("going forward"), Lit("from now on"), EndOfString >>) >>),
       Cat(<< Alt(<< Lit("moving forward"), Lit("henceforth") >>), Opt(Lit(",")),
              Plus("\\s"), Lazy, Alt(<< Lit("."), EndOfString >>) >>) >>

DEADLINE_KEYWORDS == << "by", "due", "deadline", "until", "before", "on", "next" >>

ASSIGNEE_KEYWORDS == << "assigned to", "assign to", "owner:", "responsible:", "lead:" >>

\* the concatenation of the sequences of ss
RECURSIVE Concat(_)
Concat(ss) == IF ss = << >> THEN << >> ELSE Head(ss) \o Concat(Tail(ss))

\* parse_date(date_str, languages=['en']): parse gives, for the strings the
\* parser can read, the timestamp it returns for them or None
ParseDate(date_str, parse) == IF date_str \in DOMAIN parse THEN parse[date_str] ELSE None

\* the loop "for keyword in DEADLINE_KEYWORDS" of _extract_deadline from the
\* keywords given on
RECURSIVE ExtractDeadlineFrom(_, _, _)
ExtractDeadlineFrom(keywords, text, parse) ==
    IF keywords = << >> THEN None
    ELSE LET match == Search(Cat(<< Lit(Head(keywords)), Plus("\\s"),
                                    Capture(Plus("[^,.\\n]")) >>), Lower(text), 1)
             parsed == IF match.found THEN ParseDate(Strip(Group(match, text)), parse)
                       ELSE None
         IN  IF parsed # None THEN parsed
             ELSE ExtractDeadlineFrom(Tail(keywords), text, parse)

\* HybridExtractionPipeline._extract_deadline
ExtractDeadline(text, parse) == ExtractDeadlineFrom(DEADLINE_KEYWORDS, text, parse)

RECURSIVE ExtractAssigneeFrom(_, _)
ExtractAssigneeFrom(keywords, text) ==
    IF keywords = << >> THEN None
    ELSE LET match == Search(Cat(<< Lit(Head(keywords)), Plus("\\s"), Capture(Plus("\\w")) >>),
                             Lower(text), 1)
         IN  IF match.found THEN Some(Strip(Group(match, text)))
             ELSE ExtractAssigneeFrom(Tail(keywords), text)

\* HybridExtractionPipeline._extract_assignee
ExtractAssignee(text) == ExtractAssigneeFrom(ASSIGNEE_KEYWORDS, text)

\* TaskMatchesIn with the loop over the patterns outside the loop over the
\* sentences
TaskMatchesInPatternMajor(text, parse) ==
    LET sentences == SplitSentences(text)
        found(sent, p) ==
            LET matches == FindIter(TASK_PATTERNS[p], Lower(sent), 1)
            IN  [k \in 1..Len(matches) |->
                    [type |-> "task", task |-> Strip(Group(matches[k], sent)),
                     assignee |-> ExtractAssignee(sent),
                     deadline |-> ExtractDeadline(sent, parse),
                     source_sentence |-> Strip(sent), pattern_matched |-> p,
                     confidence_score |-> 0]]
    IN  Concat([p \in 1..Len(TASK_PATTERNS) |->
                   Concat([s \in 1..Len(sentences) |-> found(sentences[s], p)])])

\* the list tasks of _detect_tasks_rules before "Deduplicate by task text"
TaskMatchesIn(text, parse) ==
    LET sentences == SplitSentences(text)
        found(sent, p) ==
            LET matches == FindIter(TASK_PATTERNS[p], Lower(sent), 1)
            IN  [k \in 1..Len(matches) |->
                    [type |-> "task", task |-> Strip(Group(matches[k], sent)),
                     assignee |-> ExtractAssignee(sent),
                     deadline |-> ExtractDeadline(sent, parse),
                     source_sentence |-> Strip(sent), pattern_matched |-> p,
                     confidence_score |-> 0]]
    IN  Concat([s \in 1..Len(sentences) |->
                   Concat([p \in 1..Len(TASK_PATTERNS) |-> found(sentences[s], p)])])

\* the list decisions of _detect_decisions_rules before "Deduplicate"
DecisionMatchesIn(text) ==
    LET sentences == SplitSentences(text)
        found(sent, p) ==
            LET matches == FindIter(DECISION_PATTERNS[p], Lower(sent), 1)
            IN  [k \in 1..Len(matches) |->
                    [type |-> "decision", decision |-> Strip(Group(matches[k], sent)),
                     source_sentence |-> Strip(sent), pattern_matched |-> p,
                     confidence_score |-> 0]]
    IN  Concat([s \in 1..Len(sentences) |->
                   Concat([p \in 1..Len(DECISION_PATTERNS) |-> found(sentences[s], p)])])

\* " ".join(texts)
RECURSIVE Join(_)
Join(texts) ==
    IF texts = << >> THEN ""
    ELSE IF Len(texts) = 1 THEN Head(texts)
    ELSE Head(texts) \o " " \o Join(Tail(texts))

\* a call that left extract_from_segments with an exception
ExtractionRaised(ollamaAvailable) ==
    [raised |-> TRUE, tasks |-> << >>, decisions |-> << >>,
     metadata |-> [rule_based_tasks_found |-> 0, rule_based_decisions_found |-> 0,
                   ollama_validation_used |-> ollamaAvailable],
     task_calls |-> << >>, decision_calls |-> << >>]

\* a segment is a dict whose key "text" may be missing: text = None
HasTexts(segments) == \A i \in 1..Len(segments) : segments[i].text # None

\* full_text = " ".join([seg["text"] for seg in segments])
FullText(segments) == Join([i \in 1..Len(segments) |-> The(segments[i].text)])

\* the matches of the task and decision patterns in the text of the segments
RawTaskMatches(segments, parse) ==
    IF HasTexts(segments) THEN TaskMatchesIn(FullText(segments), parse) ELSE << >>

RawDecisionMatches(segments) ==
    IF HasTexts(segments) THEN DecisionMatchesIn(FullText(segments)) ELSE << >>

(***************************************************************************)
(* The inputs of one extraction.                                           *)
(***************************************************************************)
\* matches of the task patterns: the dict _detect_tasks_rules appends
TaskMatches ==
    { [type |-> "task", task |-> "Send the report", assignee |-> Some("alice"),
       deadline |-> Some(SomeDeadline), source_sentence |-> "s1", pattern_matched |-> 1,
       confidence_score |-> 0],
      [type |-> "task", task |-> "send the report", assignee |-> None,
       deadline |-> None, source_sentence |-> "s2", pattern_matched |-> 4,
       confidence_score |-> 0],
      [type |-> "task", task |-> "call Bob", assignee |-> None,
       deadline |-> None, source_sentence |-> "s3", pattern_matched |-> 5,
       confidence_score |-> 0] }

\* matches of the decision patterns: the dict _detect_decisions_rules appends
DecisionMatches ==
    { [type |-> "decision", decision |-> "to migrate to the new vendor",
       source_sentence |-> "s4", pattern_matched |-> 1, confidence_score |-> 0],
      [type |-> "decision", decision |-> "We ship Friday",
       source_sentence |-> "s5", pattern_matched |-> 3, confidence_score |-> 0] }

\* the outcomes of the calls made for n items, one per item
OracleScripts(n) == [1..n -> OracleOutcomes]

(***************************************************************************)
(* The inputs of one assessment.                                           *)
(***************************************************************************)
Descriptions == {"", "Fix the login bug", "Update the docs"}
Assignees == {None, Some(""), Some("None"), Some("alice")}
Deadlines == {None, Some(SomeDeadline)}
SentimentOutcomes == {"NEGATIVE", "POSITIVE", "error"}

\* rows the Task table may hold (without their ids)
StoreRows ==
    { [task_description |-> "fix the login bugs", assignee |-> Some("alice"), status |-> "pending"],
      [task_description |-> "fix the login bugs", assignee |-> Some("None"), status |-> "overdue"],
      [task_description |-> "Update the docs", assignee |-> Some("alice"), status |-> "overdue"] }

\* primary keys: row i has id i; id 0 is an id no row has
WithIds(rows) ==
    [i \in 1..Len(rows) |->
        [id |-> i, task_description |-> rows[i].task_description,
         assignee |-> rows[i].assignee, status |-> rows[i].status]]

TaskIds == {0, 1}

\* the id of a task that is not stored: str(uuid.uuid4())
FreshTaskId == 0

TaskData ==
    [task_id : TaskIds, task_description : Descriptions,
     assignee : Assignees, deadline : Deadlines]

Environments == [sentiment : SentimentOutcomes, repFails : BOOLEAN, histFails : BOOLEAN]

(***************************************************************************)
(* Specification of the risk engine: one assessment against a store.       *)
(***************************************************************************)
\* no request to upload_meeting has come in and the graph is empty
InitServiceIdle ==
    /\ uploads = <<>>
    /\ graph = [nodes |-> {}, rels |-> {}]
    /\ updates = 0

InitExtractIdle ==
    /\ nlp = FALSE
    /\ ollama_available = FALSE
    /\ extraction = <<>>

InitRisk ==
    /\ store \in {WithIds(rows) : rows \in SeqsUpTo(StoreRows, MaxStore)}
    /\ now \in 0..MaxTime
    /\ SENTIMENT_AVAILABLE \in BOOLEAN
    /\ db_session \in BOOLEAN
    /\ assessment = <<>>

Init == InitRisk /\ InitExtractIdle /\ InitServiceIdle

\* risk_assessment = await risk_engine.assess_task_risk(task_data)
AssessOf(taskData) ==
    /\ assessment = <<>>
    /\ \E task_data \in taskData, env \in Environments :
          assessment' =
              << [task_data |-> task_data, env |-> env,
                  result |-> AssessTaskRisk(task_data, db_session, store, now,
                                            SENTIMENT_AVAILABLE, env)] >>
    /\ UNCHANGED <<store, now, SENTIMENT_AVAILABLE, db_session>>
    /\ UNCHANGED extractVars
    /\ UNCHANGED serviceVars

Assess == AssessOf(TaskData)

Next == Assess

Spec == Init /\ [][Next]_vars

(***************************************************************************)
(* Specification of the extraction pipeline: one extraction by a pipeline  *)
(* whose constructor found or did not find spaCy and Ollama.               *)
(***************************************************************************)
InitRiskIdle ==
    /\ store = <<>>
    /\ now = 0
    /\ SENTIMENT_AVAILABLE = FALSE
    /\ db_session = FALSE
    /\ assessment = <<>>

\* HybridExtractionPipeline.__init__: _init_spacy and _check_ollama
InitExtract ==
    /\ nlp \in BOOLEAN
    /\ ollama_available \in BOOLEAN
    /\ extraction = <<>>

\* extraction_result = extraction_pipeline.extract_from_segments(segments)
Extract ==
    /\ extraction = <<>>
    /\ \E taskMatches \in SeqsUpTo(TaskMatches, MaxRaw),
          decisionMatches \in SeqsUpTo(DecisionMatches, MaxRawDecisions) :
          \E taskOracle \in OracleScripts(IF ollama_available
                                          THEN Len(DetectTasksRules(taskMatches)) ELSE 0),
             decisionOracle \in OracleScripts(IF ollama_available
                                              THEN Len(DetectDecisionsRules(decisionMatches))
                                              ELSE 0) :
             extraction' =
                 << [taskMatches |-> taskMatches, decisionMatches |-> decisionMatches,
                     taskOracle |-> taskOracle, decisionOracle |-> decisionOracle,
                     result |-> ExtractFromSegments(taskMatches, decisionMatches, nlp,
                                                    ollama_available, taskOracle,
                                                    decisionOracle)] >>
    /\ UNCHANGED <<nlp, ollama_available>>
    /\ UNCHANGED riskVars
    /\ UNCHANGED serviceVars

NextExtract == Extract

InitExtraction == InitExtract /\ InitRiskIdle /\ InitServiceIdle

SpecExtract == InitExtraction /\ [][NextExtract]_vars

(***************************************************************************)
(* Specification of the extraction pipeline on segments of text: one call  *)
(* of extract_from_segments, the patterns matched against the joined text. *)
(***************************************************************************)
\* segments of a transcript; the last one has no key "text"
Segments ==
    { [speaker |-> "A", text |-> Some("We decided to migrate to the new vendor going forward.")],
      [speaker |-> "A", text |-> Some("We need to send it by email, due Friday.")],
      [speaker |-> "B", text |-> Some("Alice will send the report. We must call Bob.")],
      [speaker |-> "B", text |-> Some("Bob should SEND THE REPORT by Friday.")],
      [speaker |-> "A", text |-> Some("")],
      [speaker |-> "B", text |-> None] }

\* the strings of these texts the date parser may read as a date
DateStrings == {"Friday"}

\* what the date parser answers during one run
ParseFunctions == [DateStrings -> Deadlines]

\* what the oracle does at every call of one run: it times out, or it answers
\* {"valid": true, "confidence": 0.3}
SegmentOracleOutcomes ==
    {o \in OracleOutcomes : o.kind = "timeout" \/ o.confidence = Some(30)}

\* the outcome of every call the oracle gets for the n candidates of a list
UniformScript(n, outcome) == [i \in 1..n |-> outcome]

\* extraction_result = extraction_pipeline.extract_from_segments(segments):
\* the text is joined (KeyError for a segment without "text"), the patterns are
\* matched, and the pipeline goes on with the matches.  The record keeps, with
\* the value returned, the matches and the outcomes of the oracle's calls.
ExtractSegmentsOf(transcript) ==
    /\ extraction = << >>
    /\ \E segments \in SeqsUpTo(transcript, MaxSegments) :
          \E decisionMatches \in {RawDecisionMatches(segments)}, parse \in ParseFunctions :
             \E taskMatches \in {RawTaskMatches(segments, parse)},
                outcome \in (IF ollama_available THEN SegmentOracleOutcomes
                             ELSE {CHOOSE o \in SegmentOracleOutcomes : TRUE}) :
                \E taskOracle \in {UniformScript(IF ollama_available
                                                 THEN Len(DetectTasksRules(taskMatches))
                                                 ELSE 0, outcome)},
                   decisionOracle \in {UniformScript(IF ollama_available
                                                     THEN Len(DetectDecisionsRules(decisionMatches))
                                                     ELSE 0, outcome)} :
                   extraction' =
                       << [segments |-> segments, parse |-> parse,
                           taskMatches |-> taskMatches, decisionMatches |-> decisionMatches,
                           taskOracle |-> taskOracle, decisionOracle |-> decisionOracle,
                           result |-> IF HasTexts(segments)
                                      THEN ExtractFromSegments(taskMatches, decisionMatches,
                                                               nlp, ollama_available,
                                                               taskOracle, decisionOracle)
                                      ELSE ExtractionRaised(ollama_available)] >>
    /\ UNCHANGED <<nlp, ollama_available>>
    /\ UNCHANGED riskVars
    /\ UNCHANGED serviceVars

ExtractSegments == ExtractSegmentsOf(Segments)

NextSegments == ExtractSegments

SpecSegments == InitExtraction /\ [][NextSegments]_vars

(***************************************************************************)
(* Specification of the order of the candidates: one call of               *)
(* extract_from_segments on segments whose sentences match several         *)
(* patterns, or one pattern several times.                                 *)
(***************************************************************************)
OrderedSegments ==
    { [speaker |-> "A", text |-> Some("We will fix it, Bob will test it.")],
      [speaker |-> "B", text |-> Some("We need to call Bob, Alice will help.")],
      [speaker |-> "A", text |-> Some("Alice must sign. We will ship, Bob will ship.")],
      [speaker |-> "B", text |-> Some("We agreed to pay, we decided to wait.")] }

ExtractOrdered == ExtractSegmentsOf(OrderedSegments)

NextOrder == ExtractOrdered

SpecOrder == InitExtraction /\ [][NextOrder]_vars

(***************************************************************************)
(* Specification of repeated assessments: the same task is assessed a      *)
(* second time against the same store, possibly later.                     *)
(***************************************************************************)
\* the snapshots of the Task table the two calls read: none, or a pending task
\* like the one assessed and an overdue task of the same assignee
RepeatStores ==
    { <<>>,
      WithIds(<< [task_description |-> "fix the login bugs", assignee |-> Some("alice"),
                  status |-> "pending"],
                 [task_description |-> "Update the docs", assignee |-> Some("alice"),
                  status |-> "overdue"] >>) }

InitRepeat ==
    /\ store \in RepeatStores
    /\ now \in 0..MaxTime
    /\ SENTIMENT_AVAILABLE \in BOOLEAN
    /\ db_session \in BOOLEAN
    /\ assessment = <<>>

InitRepeated == InitRepeat /\ InitExtractIdle /\ InitServiceIdle

\* datetime.utcnow() moves on between the two calls
Tick ==
    /\ Len(assessment) = 1
    /\ now < MaxTime
    /\ now' = now + 1
    /\ UNCHANGED <<store, SENTIMENT_AVAILABLE, db_session, assessment>>
    /\ UNCHANGED extractVars
    /\ UNCHANGED serviceVars

\* assess_task_risk is called again with the task data of the first call
AssessAgain ==
    /\ Len(assessment) = 1
    /\ \E env \in Environments :
          assessment' =
              Append(assessment,
                     [task_data |-> assessment[1].task_data, env |-> env,
                      result |-> AssessTaskRisk(assessment[1].task_data, db_session, store,
                                                now, SENTIMENT_AVAILABLE, env)])
    /\ UNCHANGED <<store, now, SENTIMENT_AVAILABLE, db_session>>
    /\ UNCHANGED extractVars
    /\ UNCHANGED serviceVars

NextRepeat == Assess \/ Tick \/ AssessAgain

SpecRepeat == InitRepeated /\ [][NextRepeat]_vars

(***************************************************************************)
(* Specification of the five factors: one assessment of a task whose       *)
(* assignee may be the word "none" in several cases, against a Task table  *)
(* that holds overdue tasks of one assignee.                               *)
(***************************************************************************)
FactorAssignees == Assignees \cup {Some("NONE")}

FactorTaskData ==
    [task_id : {FreshTaskId}, task_description : Descriptions,
     assignee : FactorAssignees, deadline : Deadlines]

\* the assignees that have overdue tasks
DelayedAssignees == {"alice", "None"}

\* k overdue tasks of an assignee
OverdueRows(k, assignee) ==
    [i \in 1..k |-> [task_description |-> "Update the docs", assignee |-> Some(assignee),
                     status |-> "overdue"]]

\* a pending task similar to "Fix the login bug", or none
PendingRows ==
    { <<>>,
      << [task_description |-> "fix the login bugs", assignee |-> Some("alice"),
          status |-> "pending"] >> }

FactorStores ==
    { WithIds(pending \o OverdueRows(k, assignee)) :
        pending \in PendingRows, k \in 0..MaxStore, assignee \in DelayedAssignees }

InitFactor ==
    /\ store \in FactorStores
    /\ now \in 0..MaxTime
    /\ SENTIMENT_AVAILABLE \in BOOLEAN
    /\ db_session \in BOOLEAN
    /\ assessment = <<>>

InitFactors == InitFactor /\ InitExtractIdle /\ InitServiceIdle

AssessFactors == AssessOf(FactorTaskData)

NextFactors == AssessFactors

SpecFactors == InitFactors /\ [][NextFactors]_vars

(***************************************************************************)
(* Specification of the repetition check: one assessment against a Task    *)
(* table that is longer than the 10 rows the query is limited to.          *)
(***************************************************************************)
\* rows that do not end the scan for "Fix the login bug": another topic, a
\* similar description that is completed, a pending one of similarity 0.7
ScanFillers ==
    << [task_description |-> "Update the docs", assignee |-> Some("alice"), status |-> "pending"],
       [task_description |-> "fix the login bugs", assignee |-> Some("alice"), status |-> "completed"],
       [task_description |-> "fix the login data path", assignee |-> None, status |-> "pending"] >>

\* rows that end it
ScanHits ==
    { [task_description |-> "fix the login bugs", assignee |-> Some("alice"), status |-> "pending"],
      [task_description |-> "Fix the login bug", assignee |-> None, status |-> "in_progress"] }

\* k rows of ScanFillers, taken in turn from the one at offset
FillerRows(k, offset) == [i \in 1..k |-> ScanFillers[((i + offset) % Len(ScanFillers)) + 1]]

\* what follows them: nothing, a row that ends the scan, or one and a further row
ScanTails ==
    {<<>>} \cup {<<h>> : h \in ScanHits} \cup {<<h, ScanFillers[1]>> : h \in ScanHits}

ScanStores ==
    { WithIds(FillerRows(k, offset) \o tail) :
        k \in 0..MaxScan, offset \in 0..(Len(ScanFillers) - 1), tail \in ScanTails }

InitScan ==
    /\ store \in ScanStores
    /\ now = 0
    /\ SENTIMENT_AVAILABLE = FALSE
    /\ db_session \in BOOLEAN
    /\ assessment = <<>>

InitScanned == InitScan /\ InitExtractIdle /\ InitServiceIdle

NextScan == Assess

SpecScan == InitScanned /\ [][NextScan]_vars

(***************************************************************************)
(* neo4j_client.py: the graph is a set of nodes <<label, key>> and a set   *)
(* of relationships <<type, from, to>>.  MERGE adds what is missing, MATCH *)
(* finds what is there and yields nothing otherwise.                       *)
(***************************************************************************)
MergeNode(g, node) == [g EXCEPT !.nodes = @ \cup {node}]
MergeRel(g, type, from, to) == [g EXCEPT !.rels = @ \cup {<<type, from, to>>}]

\* MATCH (a) MATCH (b) MERGE (a)-[r:type]->(b)
MatchThenMergeRel(g, type, from, to) ==
    IF from \in g.nodes /\ to \in g.nodes THEN MergeRel(g, type, from, to) ELSE g

\* Neo4jClient.create_task_node
create_task_node(g, task_id) == MergeNode(g, <<"Task", task_id>>)

\* Neo4jClient.create_person_node
create_person_node(g, name) == MergeNode(g, <<"Person", name>>)

\* Neo4jClient.create_decision_node
create_decision_node(g, decision_id) == MergeNode(g, <<"Decision", decision_id>>)

\* Neo4jClient.link_task_to_meeting
link_task_to_meeting(g, task_id, meeting_id) ==
    MatchThenMergeRel(g, "CREATED_IN", <<"Task", task_id>>, <<"Meeting", meeting_id>>)

\* Neo4jClient.link_task_to_person
link_task_to_person(g, task_id, assignee) ==
    MatchThenMergeRel(g, "ASSIGNED_TO", <<"Task", task_id>>, <<"Person", assignee>>)

\* Neo4jClient.link_decision_to_meeting
link_decision_to_meeting(g, decision_id, meeting_id) ==
    MergeRel(MergeNode(MergeNode(g, <<"Decision", decision_id>>), <<"Meeting", meeting_id>>),
             "DECIDED_IN", <<"Decision", decision_id>>, <<"Meeting", meeting_id>>)

\* the query of get_meeting_graph: the tasks with CREATED_IN to the meeting,
\* none when there is no Meeting node
MeetingGraphTasks(g, meeting_id) ==
    IF <<"Meeting", meeting_id>> \notin g.nodes THEN {}
    ELSE {r[2][2] : r \in {q \in g.rels : q[1] = "CREATED_IN"
                                           /\ q[3] = <<"Meeting", meeting_id>>}}

(***************************************************************************)
(* meetings.py and tasks.py: the requests that write the Task table.       *)
(***************************************************************************)
\* what the extraction pipeline returned as the i-th task of an upload
ExtractedTask(i) ==
    IF i % 2 = 1
    THEN [task |-> "Fix the login bug", assignee |-> Some("alice"),
          deadline |-> Some(SomeDeadline)]
    ELSE [task |-> "fix the login bugs", assignee |-> None, deadline |-> None]

\* the lists of tasks it may return
Batches == {[i \in 1..n |-> ExtractedTask(i)] : n \in 0..MaxBatch}

\* how many decisions it may return
DecisionCounts == {0, 1}

\* how many it returns where the decisions are not looked at
OneDecision == {1}

\* the one outcome of the classifier and of the queries in these requests
ServiceEnvironment == [sentiment |-> "POSITIVE", repFails |-> FALSE, histFails |-> FALSE]

\* TaskRecords with status="overdue"
TaskRecordsOverdue(tasks, meeting_id, first_id) ==
    [i \in 1..Len(tasks) |->
        [id |-> first_id + i - 1, meeting_id |-> meeting_id,
         task_description |-> tasks[i].task, assignee |-> tasks[i].assignee,
         deadline |-> tasks[i].deadline,
         status |-> "overdue", status_by |-> "upload_meeting", was_due |-> FALSE]]

\* the Task(...) records of the tasks of an upload, with the columns the
\* requests of the model read or write; status_by and was_due are not
\* columns: they record which request wrote the status, and for
\* get_overdue_tasks whether deadline < now and status != "completed" held
TaskRecords(tasks, meeting_id, first_id) ==
    [i \in 1..Len(tasks) |->
        [id |-> first_id + i - 1, meeting_id |-> meeting_id,
         task_description |-> tasks[i].task, assignee |-> tasks[i].assignee,
         deadline |-> tasks[i].deadline,
         status |-> "pending", status_by |-> "upload_meeting", was_due |-> FALSE]]

\* the loop "for task in tasks" of step 4 from task i on: the graph after it
RECURSIVE PersistTasks(_, _, _, _, _)
PersistTasks(g, tasks, meeting_id, first_id, i) ==
    IF i > Len(tasks) THEN g
    ELSE LET task_id == first_id + i - 1
             linked == link_task_to_meeting(create_task_node(g, task_id), task_id, meeting_id)
             assigned ==
                 IF Truthy(tasks[i].assignee)
                 THEN link_task_to_person(create_person_node(linked, The(tasks[i].assignee)),
                                          task_id, The(tasks[i].assignee))
                 ELSE linked
         IN  PersistTasks(assigned, tasks, meeting_id, first_id, i + 1)

\* the loop "for decision in decisions" from decision j on
RECURSIVE PersistDecisions(_, _, _, _)
PersistDecisions(g, decisions, meeting_id, j) ==
    IF j > decisions THEN g
    ELSE PersistDecisions(
             link_decision_to_meeting(create_decision_node(g, <<meeting_id, j>>),
                                      <<meeting_id, j>>, meeting_id),
             decisions, meeting_id, j + 1)

\* upload_meeting up to step 3: the file is transcribed and the pipeline has
\* returned tasks and decisions; meeting_id = str(uuid.uuid4()).  The uploads
\* are served one after the other; the other requests come in between the
\* steps of an upload.
UploadStartOf(counts) ==
    /\ Len(uploads) < MaxUploads
    /\ \A u \in DOMAIN uploads : uploads[u].pc # "assessing"
    /\ \E tasks \in Batches, decisions \in counts :
          uploads' = Append(uploads, [pc |-> "assessing", tasks |-> tasks,
                                      decisions |-> decisions, assessed |-> 0])
    /\ UNCHANGED <<graph, updates, store, now, SENTIMENT_AVAILABLE, db_session, assessment>>
    /\ UNCHANGED extractVars

UploadStart == UploadStartOf(OneDecision)

UploadStartAnyDecisions == UploadStartOf(DecisionCounts)

\* UploadAssess that adds the Task record of the task as soon as it is assessed
UploadAssessAndAdd ==
    \E u \in DOMAIN uploads :
       LET up == uploads[u]
           i == up.assessed + 1
       IN  /\ up.pc = "assessing"
           /\ i <= Len(up.tasks)
           /\ \E r \in {AssessTaskRisk([task_id |-> FreshTaskId,
                                        task_description |-> up.tasks[i].task,
                                        assignee |-> up.tasks[i].assignee,
                                        deadline |-> up.tasks[i].deadline],
                                       db_session, store, now, SENTIMENT_AVAILABLE,
                                       ServiceEnvironment)} :
                 /\ assessment' = << [task_data |-> [task_id |-> FreshTaskId,
                                                     task_description |-> up.tasks[i].task,
                                                     assignee |-> up.tasks[i].assignee,
                                                     deadline |-> up.tasks[i].deadline],
                                      env |-> ServiceEnvironment, result |-> r,
                                      meeting_id |-> u] >>
                 /\ uploads' = [uploads EXCEPT ![u].assessed = i]
                 /\ store' = store \o TaskRecords(<<up.tasks[i]>>, u, Len(store) + 1)
           /\ UNCHANGED <<graph, updates, now, SENTIMENT_AVAILABLE, db_session>>
           /\ UNCHANGED extractVars

\* one turn of the loop of step 3: the next task of an upload is assessed
\* against the Task table as it is.  In this specification assessment holds
\* the last assessment made against the Task table as it is now: a request
\* that writes the table empties it.
UploadAssess ==
    \E u \in DOMAIN uploads :
       LET up == uploads[u]
           i == up.assessed + 1
       IN  /\ up.pc = "assessing"
           /\ i <= Len(up.tasks)
           /\ \E r \in {AssessTaskRisk([task_id |-> FreshTaskId,
                                        task_description |-> up.tasks[i].task,
                                        assignee |-> up.tasks[i].assignee,
                                        deadline |-> up.tasks[i].deadline],
                                       db_session, store, now, SENTIMENT_AVAILABLE,
                                       ServiceEnvironment)} :
                 /\ assessment' = << [task_data |-> [task_id |-> FreshTaskId,
                                                     task_description |-> up.tasks[i].task,
                                                     assignee |-> up.tasks[i].assignee,
                                                     deadline |-> up.tasks[i].deadline],
                                      env |-> ServiceEnvironment, result |-> r,
                                      meeting_id |-> u] >>
                 /\ uploads' = [uploads EXCEPT ![u].assessed = i]
           /\ UNCHANGED <<graph, updates, store, now, SENTIMENT_AVAILABLE, db_session>>
           /\ UNCHANGED extractVars

\* step 4 of upload_meeting: the Task records are added and the graph is
\* written, then the session commits.  Neo4jClient.connect() raises when the
\* database is not reachable, and the request ends with status 500 and no
\* commit.  The queries of a reachable database succeed.
UploadPersist ==
    \E u \in DOMAIN uploads, reachable \in BOOLEAN :
       LET up == uploads[u]
           first_id == Len(store) + 1
       IN  /\ up.pc = "assessing"
           /\ up.assessed = Len(up.tasks)
           /\ Len(store) + Len(up.tasks) <= MaxStore
           /\ IF ~reachable /\ Len(up.tasks) + up.decisions > 0
              THEN /\ uploads' = [uploads EXCEPT ![u].pc = "failed"]
                   /\ UNCHANGED <<graph, store, assessment>>
              ELSE /\ uploads' = [uploads EXCEPT ![u].pc = "done"]
                   /\ store' = store \o TaskRecords(up.tasks, u, first_id)
                   /\ assessment' = <<>>
                   /\ graph' = PersistDecisions(
                                   PersistTasks(graph, up.tasks, u, first_id, 1),
                                   up.decisions, u, 1)
           /\ UNCHANGED <<updates, now, SENTIMENT_AVAILABLE, db_session>>
           /\ UNCHANGED extractVars

\* Overdue with Task.deadline <= now
OverdueAtOrBefore(t, clock) ==
    t.deadline # None /\ The(t.deadline) <= clock /\ t.status # "completed"

\* the rows get_overdue_tasks selects: Task.deadline < now and
\* Task.status != "completed" (a NULL deadline is not selected)
Overdue(t, clock) == t.deadline # None /\ The(t.deadline) < clock /\ t.status # "completed"

\* GET /api/tasks/overdue
GetOverdueTasks ==
    /\ store' = [i \in 1..Len(store) |->
                    IF Overdue(store[i], now)
                    THEN [store[i] EXCEPT !.status = "overdue",
                                          !.status_by = "get_overdue_tasks",
                                          !.was_due = /\ store[i].deadline # None
                                                      /\ The(store[i].deadline) < now
                                                      /\ store[i].status # "completed"]
                    ELSE store[i]]
    /\ assessment' = <<>>
    /\ UNCHANGED <<now, SENTIMENT_AVAILABLE, db_session>>
    /\ UNCHANGED extractVars
    /\ UNCHANGED serviceVars

\* the bodies of the requests to update_task
UpdateRequests ==
    { [status |-> Some("overdue"), assignee |-> None, deadline |-> None],
      [status |-> Some("completed"), assignee |-> None, deadline |-> Some(MaxTime)],
      [status |-> Some(""), assignee |-> Some("alice"), deadline |-> None] }

\* PUT /api/tasks/{task_id}: 404 for a task that is not stored
UpdateTask ==
    /\ updates < MaxUpdates
    /\ updates' = updates + 1
    /\ assessment' = <<>>
    /\ \E task_id \in 0..Len(store), request \in UpdateRequests :
          IF task_id = 0 THEN UNCHANGED store
          ELSE store' =
                 [store EXCEPT ![task_id] =
                    [@ EXCEPT !.status = IF Truthy(request.status)
                                         THEN The(request.status) ELSE @,
                              !.status_by = IF Truthy(request.status)
                                            THEN "update_task" ELSE @,
                              !.assignee = IF Truthy(request.assignee)
                                           THEN request.assignee ELSE @,
                              !.deadline = IF request.deadline # None
                                           THEN request.deadline ELSE @]]
    /\ UNCHANGED <<now, SENTIMENT_AVAILABLE, db_session>>
    /\ UNCHANGED extractVars
    /\ UNCHANGED <<uploads, graph>>

\* time passes between the requests and between the awaits of a request
ClockTick ==
    /\ now < MaxTime
    /\ now' = now + 1
    /\ UNCHANGED <<store, SENTIMENT_AVAILABLE, db_session, assessment>>
    /\ UNCHANGED extractVars
    /\ UNCHANGED serviceVars

\* the service starts with an empty Task table and an empty graph
InitService ==
    /\ store = <<>>
    /\ now = 0
    /\ SENTIMENT_AVAILABLE = FALSE
    /\ db_session = TRUE
    /\ assessment = <<>>
    /\ InitExtractIdle
    /\ InitServiceIdle

NextService == UploadStart \/ UploadAssess \/ UploadPersist \/ GetOverdueTasks
                 \/ UpdateTask \/ ClockTick

SpecService == InitService /\ [][NextService]_vars

\* the uploads alone, with or without a decision
NextGraph == UploadStartAnyDecisions \/ UploadAssess \/ UploadPersist

SpecGraph == InitService /\ [][NextGraph]_vars

(***************************************************************************)
(* Properties of the risk engine.                                          *)
(***************************************************************************)
RECURSIVE SumPoints(_)
SumPoints(factors) ==
    IF factors = <<>> THEN 0 ELSE Head(factors).points + SumPoints(Tail(factors))

RECURSIVE SumOver(_, _)
SumOver(f, S) ==
    IF S = {} THEN 0
    ELSE LET c == CHOOSE x \in S : TRUE IN f[c] + SumOver(f, S \ {c})

FactorNames(r) == {r.risk_factors[i].factor : i \in 1..Len(r.risk_factors)}

\* the assessments that returned a value
ReturnedAssessments == {i \in DOMAIN assessment : ~assessment[i].result.raised}

\* C1: whatever the task record, the store and the sentiment capability, the
\* risk_score a call of assess_task_risk returns is an integer in 0..100.
C1_ScoreInRange ==
    \A i \in ReturnedAssessments :
        /\ assessment[i].result.risk_score \in Int
        /\ 0 <= assessment[i].result.risk_score
        /\ assessment[i].result.risk_score <= 100

\* the clamp acts: the awarded points add up to more than 100
C1_Witness ==
    \E i \in ReturnedAssessments :
        /\ assessment[i].result.score > 100
        /\ assessment[i].result.risk_score = 100

\* the thresholds the specification gives for a score
ThresholdLevel(score) ==
    CASE score <= 30 -> "Low"
      [] score >= 31 /\ score <= 60 -> "Medium"
      [] score >= 61 /\ score <= 85 -> "High"
      [] OTHER -> "Critical"

\* C2: the returned risk_level is the threshold function of the returned
\* (post-clamp) risk_score: <= 30 Low, 31..60 Medium, 61..85 High, 86..100
\* Critical; at the boundaries 30 is Low, 31 Medium, 60 Medium, 61 High,
\* 85 High and 86 Critical.
C2_LevelFromScore ==
    /\ \A i \in ReturnedAssessments :
          assessment[i].result.risk_level = ThresholdLevel(assessment[i].result.risk_score)
    /\ GetRiskLevel(30) = "Low"
    /\ GetRiskLevel(31) = "Medium"
    /\ GetRiskLevel(60) = "Medium"
    /\ GetRiskLevel(61) = "High"
    /\ GetRiskLevel(85) = "High"
    /\ GetRiskLevel(86) = "Critical"

\* an assessment whose score sits on the boundary 85
C2_Witness ==
    \E i \in ReturnedAssessments :
        /\ assessment[i].result.risk_score = 85
        /\ assessment[i].result.risk_level = "High"

\* C3: the five breakdown values add up to the points of the listed factors
\* and to the pre-clamp total, and risk_score is the minimum of that sum and 100.
C3_BreakdownSum ==
    \A i \in ReturnedAssessments :
        LET r == assessment[i].result
            sum == SumOver(r.total_risk_breakdown, Categories)
        IN  /\ sum = SumPoints(r.risk_factors)
            /\ sum = r.score
            /\ r.risk_score = (IF sum <= 100 THEN sum ELSE 100)

\* all five categories awarded, the sum above 100
C3_Witness ==
    \E i \in ReturnedAssessments :
        LET r == assessment[i].result
        IN  /\ Len(r.risk_factors) = 5
            /\ SumOver(r.total_risk_breakdown, Categories) = 105
            /\ r.risk_score = 100

\* the category a factor name belongs to
CategoryOf(name) ==
    CASE name = "No Assignee" -> "assignee_risk"
      [] name \in {"No Deadline", "Deadline Passed"} -> "deadline_risk"
      [] name = "Negative Sentiment Detected" -> "sentiment_risk"
      [] name = "Topic Repeated" -> "repetition_risk"
      [] name = "Assignee History of Delays" -> "historical_risk"
      [] OTHER -> "unknown"

\* C4: no factor with 0 points is listed; a breakdown category is nonzero
\* exactly when one factor of that category is listed, with the same points.
C4_NoZeroFactor ==
    \A i \in ReturnedAssessments :
        LET r == assessment[i].result
            listed(c) == {k \in 1..Len(r.risk_factors) : CategoryOf(r.risk_factors[k].factor) = c}
        IN  /\ \A k \in 1..Len(r.risk_factors) : r.risk_factors[k].points > 0
            /\ \A c \in Categories :
                  /\ r.total_risk_breakdown[c] # 0 <=> listed(c) # {}
                  /\ Cardinality(listed(c)) <= 1
                  /\ \A k \in listed(c) : r.risk_factors[k].points = r.total_risk_breakdown[c]

\* the classifier was asked and answered POSITIVE, both store checks ran and
\* found nothing: three helpers returned 0 and none of them is listed
C4_Witness ==
    \E i \in ReturnedAssessments :
        LET a == assessment[i]
        IN  /\ SENTIMENT_AVAILABLE /\ a.task_data.task_description # ""
            /\ a.env.sentiment = "POSITIVE"
            /\ db_session /\ ~a.env.repFails /\ ~a.env.histFails
            /\ Truthy(a.task_data.assignee)
            /\ a.result.total_risk_breakdown["sentiment_risk"] = 0
            /\ a.result.total_risk_breakdown["repetition_risk"] = 0
            /\ a.result.total_risk_breakdown["historical_risk"] = 0
            /\ FactorNames(a.result) = {"Deadline Passed"}

\* C5: "No Deadline" and "Deadline Passed" are never both listed, and at most
\* one deadline factor is listed.
C5_DeadlineExclusive ==
    \A i \in ReturnedAssessments :
        LET r == assessment[i].result
            deadlineFactors == {k \in 1..Len(r.risk_factors) :
                                   r.risk_factors[k].factor \in {"No Deadline", "Deadline Passed"}}
        IN  /\ ~({"No Deadline", "Deadline Passed"} \subseteq FactorNames(r))
            /\ Cardinality(deadlineFactors) <= 1

\* a task whose deadline has elapsed: "Deadline Passed" alone
C5_Witness ==
    \E i \in ReturnedAssessments :
        /\ assessment[i].task_data.deadline # None
        /\ The(assessment[i].task_data.deadline) < now
        /\ "Deadline Passed" \in FactorNames(assessment[i].result)
        /\ "No Deadline" \notin FactorNames(assessment[i].result)

\* the historical store is unavailable: no session, or every query raises
StoreUnavailable(a) == ~db_session \/ (a.env.repFails /\ a.env.histFails)

\* the same call against an empty store that answers its queries
WithEmptyStore(a) ==
    AssessTaskRisk(a.task_data, TRUE, <<>>, now, SENTIMENT_AVAILABLE,
                   [a.env EXCEPT !.repFails = FALSE, !.histFails = FALSE])

\* the same call against the store as it is, answering its queries
WithWorkingStore(a) ==
    AssessTaskRisk(a.task_data, TRUE, store, now, SENTIMENT_AVAILABLE,
                   [a.env EXCEPT !.repFails = FALSE, !.histFails = FALSE])

\* C6: with the historical store unavailable, assess_task_risk raises nothing,
\* "Topic Repeated" and "Assignee History of Delays" contribute 0 and are not
\* listed, and the other factors are those of an empty store.
C6_FailOpen ==
    \A i \in DOMAIN assessment :
        LET a == assessment[i]
            r == a.result
        IN  StoreUnavailable(a) =>
              /\ ~r.raised
              /\ r.total_risk_breakdown["repetition_risk"] = 0
              /\ r.total_risk_breakdown["historical_risk"] = 0
              /\ FactorNames(r) \cap {"Topic Repeated", "Assignee History of Delays"} = {}
              /\ \A empty \in {WithEmptyStore(a)} :
                    /\ r.risk_factors = empty.risk_factors
                    /\ r.total_risk_breakdown = empty.total_risk_breakdown
                    /\ r.risk_score = empty.risk_score
                    /\ r.risk_level = empty.risk_level

\* both queries raised although the store, had it answered, would have awarded
\* both store factors
C6_Witness ==
    \E i \in DOMAIN assessment :
        LET a == assessment[i]
        IN  /\ db_session /\ a.env.repFails /\ a.env.histFails
            /\ {"Topic Repeated", "Assignee History of Delays"}
                   \subseteq FactorNames(WithWorkingStore(a))
            /\ ~a.result.raised

(***************************************************************************)
(* Properties of the extraction pipeline.                                  *)
(***************************************************************************)
\* the oracle failed at a call: timeout, transport failure, non-zero exit or
\* a response that is no JSON object
OracleFailed(o) == o.kind \in {"timeout", "transport", "exit", "notjson", "nonobject"}

\* the oracle answered {valid, confidence, reason} with a confidence in [0,1]
OracleWellFormed(o) ==
    /\ o.kind = "object"
    /\ o.confidence # None
    /\ o.valid # None
    /\ The(o.confidence) \in 0..100

\* the number of times item i was submitted to the oracle
TimesSubmitted(calls, i) == Cardinality({k \in 1..Len(calls) : calls[k] = i})

\* the claim of C7 for one validated list
OnlyFailingFallsBack(items, item_type, oracle, calls) ==
    \A k \in 1..Len(items) :
        (/\ OracleFailed(oracle[k])
         /\ \A j \in 1..Len(items) : j # k => OracleWellFormed(oracle[j]))
        => /\ items[k].confidence_score = CalculateConfidence(items[k], item_type)
           /\ \A j \in 1..Len(items) :
                 j # k => /\ TimesSubmitted(calls, j) = 1
                          /\ items[j].confidence_score = The(oracle[j].confidence)

\* C7: when the oracle fails for one candidate of a batch (timeout, transport
\* failure, non-zero exit, malformed response) and answers well-formed for the
\* others, only the failing candidate has the fallback confidence; every other
\* candidate was submitted once and keeps the confidence the oracle returned.
C7_OnlyFailingCandidateFallsBack ==
    \A e \in DOMAIN extraction :
        LET x == extraction[e]
        IN  ollama_available =>
              /\ OnlyFailingFallsBack(x.result.tasks, "task", x.taskOracle, x.result.task_calls)
              /\ OnlyFailingFallsBack(x.result.decisions, "decision", x.decisionOracle,
                                      x.result.decision_calls)

\* identity of a candidate: what the pattern matcher produced, without the
\* confidence and the annotations later steps set
Candidate(item) ==
    IF item.type = "task"
    THEN <<"task", item.task, item.assignee, item.deadline, item.source_sentence,
           item.pattern_matched>>
    ELSE <<"decision", item.decision, item.source_sentence, item.pattern_matched>>

Candidates(items) == [i \in 1..Len(items) |-> Candidate(items[i])]

\* C8: whatever the oracle does at each call, extract_from_segments returns
\* without raising and the returned tasks and decisions are the rule-based
\* candidates in the same order, as many as the two rule-based counts say.
C8_NoCandidateLost ==
    \A e \in DOMAIN extraction :
        LET x == extraction[e]
            r == x.result
        IN  /\ ~r.raised
            /\ Candidates(r.tasks) = Candidates(DetectTasksRules(x.taskMatches))
            /\ Candidates(r.decisions) = Candidates(DetectDecisionsRules(x.decisionMatches))
            /\ Len(r.tasks) = r.metadata.rule_based_tasks_found
            /\ Len(r.decisions) = r.metadata.rule_based_decisions_found

\* the oracle timed out at the second of two tasks, and there is a decision
C8_Witness ==
    \E e \in DOMAIN extraction :
        LET x == extraction[e]
        IN  /\ ollama_available
            /\ Len(x.result.tasks) = 2
            /\ Len(x.result.decisions) = 1
            /\ x.taskOracle[1].kind = "object"
            /\ x.taskOracle[2].kind = "timeout"
            /\ x.decisionOracle[1].kind = "transport"
            /\ ~x.result.raised

\* C9: every returned candidate has a confidence_score in [0,1], whether it
\* comes from the fallback heuristic or from the oracle's response.
C9_ConfidenceInUnitInterval ==
    \A e \in DOMAIN extraction :
        LET r == extraction[e].result
        IN  /\ \A i \in 1..Len(r.tasks) :
                  0 <= r.tasks[i].confidence_score /\ r.tasks[i].confidence_score <= 100
            /\ \A i \in 1..Len(r.decisions) :
                  0 <= r.decisions[i].confidence_score /\ r.decisions[i].confidence_score <= 100

\* the oracle's response cannot be parsed into {valid, confidence, reason}:
\* not JSON, JSON that is no object, or an object without the confidence field
OracleUnparsable(o) ==
    \/ o.kind \in {"notjson", "nonobject"}
    \/ o.kind = "object" /\ o.confidence = None

\* the claim of C10 for one validated list
UnparsableFallsBack(items, item_type, oracle, calls) ==
    \A k \in 1..Len(items) :
        (TimesSubmitted(calls, k) = 1 /\ OracleUnparsable(oracle[k]))
        => items[k].confidence_score = CalculateConfidence(items[k], item_type)

\* C10: a candidate whose oracle response cannot be parsed into {valid,
\* confidence, reason} has the fallback heuristic's confidence.
C10_UnparsableResponseFallsBack ==
    \A e \in DOMAIN extraction :
        LET x == extraction[e]
        IN  ollama_available =>
              /\ UnparsableFallsBack(x.result.tasks, "task", x.taskOracle, x.result.task_calls)
              /\ UnparsableFallsBack(x.result.decisions, "decision", x.decisionOracle,
                                     x.result.decision_calls)

\* the confidence the oracle's response sets: response.get("confidence", 0.7)
OracleConfidence(o) == IF o.confidence = None THEN 70 ELSE The(o.confidence)

\* the confidence of every item of a returned list was written by the oracle's
\* response or by the fallback heuristic
Overwritten(items, item_type, oracle) ==
    \A k \in 1..Len(items) :
        \/ items[k].confidence_score = CalculateConfidence(items[k], item_type)
        \/ /\ ollama_available
           /\ oracle[k].kind = "object"
           /\ items[k].confidence_score = OracleConfidence(oracle[k])

\* C11: on every path through extract_from_segments (oracle unavailable, oracle
\* success, oracle failure at any candidate) the confidence_score of each
\* returned candidate is the value the oracle's response or the fallback
\* heuristic wrote over the placeholder 0.0 the candidate was created with.
C11_PlaceholderOverwritten ==
    \A e \in DOMAIN extraction :
        LET x == extraction[e]
        IN  /\ Overwritten(x.result.tasks, "task", x.taskOracle)
            /\ Overwritten(x.result.decisions, "decision", x.decisionOracle)

\* the oracle answered for the first task and exited non-zero for the second
C11_Witness ==
    \E e \in DOMAIN extraction :
        LET x == extraction[e]
        IN  /\ ollama_available
            /\ Len(x.result.tasks) = 2
            /\ x.taskMatches[1].confidence_score = 0
            /\ x.taskOracle[1].kind = "object"
            /\ x.taskOracle[2].kind = "exit"
            /\ x.result.tasks[1].confidence_score = OracleConfidence(x.taskOracle[1])
            /\ x.result.tasks[2].confidence_score
                   = CalculateConfidence(x.result.tasks[2], "task")

\* the fallback confidence the specification gives, in hundredths
FallbackFormula(item) ==
    LET bonus(cond, points) == IF cond THEN points ELSE 0
        sum == IF item.type = "task"
               THEN 60 + bonus(item.assignee \notin {None, Some("")}, 15)
                       + bonus(item.deadline # None, 15)
                       + bonus(Len(item.task) > 10, 10)
               ELSE 60 + bonus(Len(item.decision) > 15, 20)
    IN  IF sum > 100 THEN 100 ELSE sum

\* the items of a returned list the fallback heuristic scored
FellBack(items, oracle) ==
    {k \in 1..Len(items) : ~ollama_available \/ oracle[k].kind # "object"}

\* C12: the fallback confidence is 0.6 + 0.15 (task with assignee) + 0.15 (task
\* with deadline) + 0.1 (task text longer than 10 characters) for a task and
\* 0.6 + 0.2 (text longer than 15 characters) for a decision, capped at 1.0,
\* and so lies in [0.6, 1.0].
C12_FallbackArithmetic ==
    \A e \in DOMAIN extraction :
        LET x == extraction[e]
            r == x.result
        IN  /\ \A k \in FellBack(r.tasks, x.taskOracle) :
                  /\ r.tasks[k].confidence_score = FallbackFormula(r.tasks[k])
                  /\ r.tasks[k].confidence_score \in 60..100
            /\ \A k \in FellBack(r.decisions, x.decisionOracle) :
                  /\ r.decisions[k].confidence_score = FallbackFormula(r.decisions[k])
                  /\ r.decisions[k].confidence_score \in 60..100

\* a task with every bonus reaches 1.0; a task of 8 characters without assignee
\* and deadline and a decision of 14 characters stay at 0.6
C12_Witness ==
    \E e \in DOMAIN extraction :
        LET r == extraction[e].result
        IN  /\ ~ollama_available
            /\ Len(r.tasks) = 2 /\ Len(r.decisions) = 1
            /\ Truthy(r.tasks[1].assignee) /\ r.tasks[1].deadline # None
            /\ r.tasks[1].confidence_score = 100
            /\ r.tasks[2].task = "call Bob"
            /\ r.tasks[2].confidence_score = 60
            /\ r.decisions[1].decision = "We ship Friday"
            /\ r.decisions[1].confidence_score = 60

\* the place of a factor in the evaluation order the specification fixes
EvaluationRank(name) ==
    CASE name = "No Assignee" -> 1
      [] name \in {"No Deadline", "Deadline Passed"} -> 2
      [] name = "Negative Sentiment Detected" -> 3
      [] name = "Topic Repeated" -> 4
      [] name = "Assignee History of Delays" -> 5
      [] OTHER -> 0

\* C14: the risk_factors list is in the fixed evaluation order No Assignee,
\* deadline factor, Negative Sentiment Detected, Topic Repeated, Assignee
\* History of Delays: the awarded factors are a subsequence of that order.
C14_EvaluationOrder ==
    \A i \in ReturnedAssessments :
        LET f == assessment[i].result.risk_factors
        IN  /\ \A k \in 1..Len(f) : EvaluationRank(f[k].factor) \in 1..5
            /\ \A k \in 1..Len(f) : \A l \in 1..Len(f) :
                  k < l => EvaluationRank(f[k].factor) < EvaluationRank(f[l].factor)

\* a proper subset is awarded: the deadline factor, Topic Repeated and Assignee
\* History of Delays, without No Assignee and without the sentiment factor
C14_Witness ==
    \E i \in ReturnedAssessments :
        LET f == assessment[i].result.risk_factors
        IN  /\ Len(f) = 3
            /\ f[1].factor = "No Deadline"
            /\ f[2].factor = "Topic Repeated"
            /\ f[3].factor = "Assignee History of Delays"

\* two returned assessments of the same task data whose sentiment classifier
\* and store queries answered the same way (the store itself never changes)
SameInputs(i, j) ==
    /\ i \in ReturnedAssessments /\ j \in ReturnedAssessments
    /\ assessment[i].task_data = assessment[j].task_data
    /\ assessment[i].env = assessment[j].env

SameOutputs(i, j) ==
    /\ assessment[i].result.risk_factors = assessment[j].result.risk_factors
    /\ assessment[i].result.risk_score = assessment[j].result.risk_score

\* the deadline of assessment i has passed when the assessment is made
DeadlineBehind(i) ==
    /\ assessment[i].task_data.deadline # None
    /\ The(assessment[i].task_data.deadline) < assessment[i].result.assessment_timestamp

\* C13 as stated: given the same task data and the same historical-store
\* snapshot, repeated calls of assess_task_risk return an identical risk_factors
\* list and an identical risk_score, whenever the calls are made.
C13_DeterministicWhenever ==
    \A i \in DOMAIN assessment : \A j \in DOMAIN assessment :
        SameInputs(i, j) => SameOutputs(i, j)

\* C13: given the same task data, the same historical-store snapshot and the
\* same answers of the sentiment classifier and the store queries, two calls of
\* assess_task_risk return an identical risk_factors list and an identical
\* risk_score when the deadline has passed at both calls or at neither.
C13_DeterministicAtSameSideOfDeadline ==
    \A i \in DOMAIN assessment : \A j \in DOMAIN assessment :
        (SameInputs(i, j) /\ (DeadlineBehind(i) <=> DeadlineBehind(j)))
        => SameOutputs(i, j)

\* the second call is made later than the first, the deadline is behind
\* neither, and the store awards both of its factors at both calls
C13_Witness ==
    /\ Len(assessment) = 2
    /\ SameInputs(1, 2)
    /\ assessment[1].result.assessment_timestamp < assessment[2].result.assessment_timestamp
    /\ assessment[1].task_data.deadline # None
    /\ ~DeadlineBehind(1) /\ ~DeadlineBehind(2)
    /\ {"Topic Repeated", "Assignee History of Delays"}
           \subseteq FactorNames(assessment[2].result)
    /\ SameOutputs(1, 2)

(***************************************************************************)
(* Properties of the pattern matcher and the deduplicator on texts         *)
(***************************************************************************)
\* the positions of a list of matches that are the first with their text,
\* ignoring case
FirstOccurrences(matches) ==
    { i \in 1..Len(matches) :
        \A j \in 1..(i - 1) : Lower(TextOf(matches[j])) # Lower(TextOf(matches[i])) }

\* the k-th smallest number of a set of numbers
Nth(S, k) == CHOOSE i \in S : Cardinality({j \in S : j < i}) = k - 1

\* the matches at the positions of S, in the order of the list
MatchesAt(matches, S) == [k \in 1..Cardinality(S) |-> matches[Nth(S, k)]]

\* no two candidates of a list have texts that are equal ignoring case
DistinctTexts(items) ==
    \A i, j \in 1..Len(items) :
        i # j => Lower(TextOf(items[i])) # Lower(TextOf(items[j]))

\* C15: for each candidate kind the deduplicated list has no two candidates
\* whose texts are equal ignoring case; the candidate kept for a text is its
\* first occurrence in the raw match list, with that occurrence's metadata,
\* and the kept candidates are in the order of the raw match list.
C15_FirstOccurrenceKept ==
    \A e \in DOMAIN extraction :
        LET x == extraction[e]
            r == x.result
        IN  ~r.raised =>
              /\ DistinctTexts(r.tasks)
              /\ DistinctTexts(r.decisions)
              /\ Candidates(r.tasks)
                    = Candidates(MatchesAt(x.taskMatches, FirstOccurrences(x.taskMatches)))
              /\ Candidates(r.decisions)
                    = Candidates(MatchesAt(x.decisionMatches,
                                           FirstOccurrences(x.decisionMatches)))

\* the raw task matches are "send the report", "call Bob" and then "SEND THE
\* REPORT" with a deadline: the first two are kept, the first without deadline
C15_Witness ==
    \E e \in DOMAIN extraction :
        LET x == extraction[e]
            r == x.result
        IN  /\ ~r.raised
            /\ Len(x.taskMatches) = 3
            /\ x.taskMatches[1].task = "send the report"
            /\ x.taskMatches[3].task = "SEND THE REPORT"
            /\ x.taskMatches[3].deadline # None
            /\ Len(r.tasks) = 2
            /\ r.tasks[1].task = "send the report"
            /\ r.tasks[1].deadline = None
            /\ r.tasks[2].task = "call Bob"

\* the texts of a list of candidates, in order
Texts(items) == [i \in 1..Len(items) |-> TextOf(items[i])]

Blank(segment) == segment.text = None \/ Strip(The(segment.text)) = ""

\* C17: for malformed or empty input (an empty segment list, segments whose
\* text is empty or only white space, or a segment lacking the text field)
\* extract_from_segments raises no error and returns empty tasks and decisions
\* lists with both rule-based counts equal to 0.
C17_MalformedInputReturnsEmpty ==
    \A e \in DOMAIN extraction :
        LET x == extraction[e]
            r == x.result
        IN  (\A i \in 1..Len(x.segments) : Blank(x.segments[i])) =>
              /\ ~r.raised
              /\ r.tasks = << >>
              /\ r.decisions = << >>
              /\ r.metadata.rule_based_tasks_found = 0
              /\ r.metadata.rule_based_decisions_found = 0

(***************************************************************************)
(* Properties of the entity enrichment                                     *)
(***************************************************************************)
\* the fields entity enrichment sets
Annotations == {"entities", "spacy_processed"}

\* enriched is the list items with nothing but annotations added
OnlyAnnotated(items, enriched) ==
    /\ Len(enriched) = Len(items)
    /\ \A i \in 1..Len(items) :
          /\ DOMAIN enriched[i] \subseteq DOMAIN items[i] \cup Annotations
          /\ \A field \in DOMAIN items[i] \ Annotations :
                field \in DOMAIN enriched[i] /\ enriched[i][field] = items[i][field]

\* C18: entity enrichment leaves the text, assignee, deadline and
\* confidence_score of each candidate unchanged and keeps the number and the
\* order of the candidates; it only adds entity annotations, and without the
\* linguistic capability it returns the candidates unchanged and the call
\* raises no error.
C18_EnrichmentAdditive ==
    \A e \in DOMAIN extraction :
        LET x == extraction[e]
            r == x.result
            tasks == DetectTasksRules(x.taskMatches)
            decisions == DetectDecisionsRules(x.decisionMatches)
        IN  /\ OnlyAnnotated(tasks, EnrichWithSpacy(tasks, nlp))
            /\ OnlyAnnotated(decisions, EnrichWithSpacy(decisions, nlp))
            /\ ~nlp => /\ EnrichWithSpacy(tasks, nlp) = tasks
                       /\ EnrichWithSpacy(decisions, nlp) = decisions
                       /\ ~r.raised
            /\ \A i \in 1..Len(r.tasks) :
                  /\ (Annotations \subseteq DOMAIN r.tasks[i]) = nlp
                  /\ nlp => r.tasks[i].entities = Entities(r.tasks[i].task)
            /\ \A i \in 1..Len(r.decisions) :
                  (Annotations \subseteq DOMAIN r.decisions[i]) = nlp

\* the model is loaded and of two returned tasks one has an entity, one none
C18_Witness ==
    \E e \in DOMAIN extraction :
        LET r == extraction[e].result
        IN  /\ nlp
            /\ Len(r.tasks) = 2
            /\ Len(r.decisions) = 1
            /\ r.tasks[1].entities = {}
            /\ r.tasks[2].entities # {}
            /\ r.tasks[1].deadline # None

(***************************************************************************)
(* Properties of the deadline normalizer                                   *)
(***************************************************************************)
\* re.search(rf"{keyword}\s+([^,.\n]+)", text, re.IGNORECASE)
KeywordMatch(keyword, text) ==
    Search(Cat(<< Lit(keyword), Plus("\\s"), Capture(Plus("[^,.\\n]")) >>), Lower(text), 1)

\* the positions in DEADLINE_KEYWORDS of the keywords that match the text
MatchingKeywords(text) ==
    { k \in 1..Len(DEADLINE_KEYWORDS) : KeywordMatch(DEADLINE_KEYWORDS[k], text).found }

\* what the date parser makes of the substring after the first keyword, in the
\* order of DEADLINE_KEYWORDS, that matches the text; none if none matches
FirstKeywordDeadline(text, parse) ==
    IF MatchingKeywords(text) = {} THEN None
    ELSE LET first == CHOOSE k \in MatchingKeywords(text) :
                          \A other \in MatchingKeywords(text) : k <= other
         IN  ParseDate(Strip(Group(KeywordMatch(DEADLINE_KEYWORDS[first], text), text)), parse)

\* C19: the deadline normalizer tries only the first keyword, in the order by,
\* due, deadline, until, before, on, next, that matches the sentence: if the
\* substring after that keyword does not parse as a date the deadline is none,
\* even when a later keyword matches too and its substring would parse.
C19_OnlyFirstKeywordTried ==
    \A e \in DOMAIN extraction :
        LET x == extraction[e]
        IN  \A i \in 1..Len(x.taskMatches) :
               x.taskMatches[i].deadline
                   = FirstKeywordDeadline(x.taskMatches[i].source_sentence, x.parse)

(***************************************************************************)
(* Scenario C of the specification                                         *)
(***************************************************************************)
ScenarioC == "We decided to migrate to the new vendor going forward."

\* the call was made on the text of scenario C
ScenarioCReturned(x) == HasTexts(x.segments) /\ FullText(x.segments) = ScenarioC

\* C20 as stated: for the text "We decided to migrate to the new vendor going
\* forward." the decision detector returns exactly one decision candidate and
\* its captured text is "to migrate to the new vendor".
C20_ScenarioCAsStated ==
    \A e \in DOMAIN extraction :
        LET x == extraction[e]
        IN  ScenarioCReturned(x) =>
              /\ Len(x.result.decisions) = 1
              /\ x.result.decisions[1].decision = "to migrate to the new vendor"

\* C20 amended: for that text the decision detector returns exactly one
\* decision candidate, matched by the "decided to/that" pattern, and its
\* captured text is "migrate to the new vendor going forward".
C20_ScenarioC ==
    \A e \in DOMAIN extraction :
        LET x == extraction[e]
        IN  ScenarioCReturned(x) =>
              /\ Len(x.decisionMatches) = 1
              /\ Len(x.result.decisions) = 1
              /\ x.result.decisions[1].decision = "migrate to the new vendor going forward"
              /\ x.result.decisions[1].pattern_matched = 1
              /\ x.result.decisions[1].source_sentence = ScenarioC

\* extract_from_segments was called on the one segment of scenario C
C20_Witness ==
    \E e \in DOMAIN extraction :
        LET x == extraction[e]
        IN  /\ Len(x.segments) = 1
            /\ x.segments[1].text = Some(ScenarioC)
            /\ ~x.result.raised
            /\ Len(x.result.decisions) = 1
            /\ x.result.tasks = << >>

(***************************************************************************)
(* The five factors of the risk engine, one by one                         *)
(***************************************************************************)
\* the factors of a result that belong to a category, as name-points pairs
FactorsOf(r, cat) ==
    { <<r.risk_factors[k].factor, r.risk_factors[k].points>> :
        k \in {j \in 1..Len(r.risk_factors) : CategoryOf(r.risk_factors[j].factor) = cat} }

\* C21: the deadline factor is +25 "No Deadline" when the deadline is missing,
\* +35 "Deadline Passed" when the deadline is present and strictly before the
\* assessment time, and 0 with no deadline factor listed when the deadline is
\* present and at or after the assessment time.  With an assignee, a deadline
\* in the past and no other factor the result is score 35, level Medium.
C21_DeadlineFactor ==
    \A i \in ReturnedAssessments :
        LET a == assessment[i]
            r == a.result
            deadline == a.task_data.deadline
            at == r.assessment_timestamp
            others == Categories \ {"deadline_risk"}
        IN  /\ deadline = None =>
                  /\ FactorsOf(r, "deadline_risk") = {<<"No Deadline", 25>>}
                  /\ r.total_risk_breakdown["deadline_risk"] = 25
            /\ (deadline # None /\ The(deadline) < at) =>
                  /\ FactorsOf(r, "deadline_risk") = {<<"Deadline Passed", 35>>}
                  /\ r.total_risk_breakdown["deadline_risk"] = 35
            /\ (deadline # None /\ The(deadline) >= at) =>
                  /\ FactorsOf(r, "deadline_risk") = {}
                  /\ r.total_risk_breakdown["deadline_risk"] = 0
            /\ (/\ a.task_data.assignee = Some("alice")
                /\ deadline # None /\ The(deadline) < at
                /\ \A c \in others : r.total_risk_breakdown[c] = 0) =>
                  /\ r.risk_factors = <<[factor |-> "Deadline Passed", points |-> 35]>>
                  /\ r.risk_score = 35
                  /\ r.risk_level = "Medium"

\* scenario B: the task of alice, its deadline elapsed, the classifier and the
\* store asked and nothing found
C21_Witness ==
    \E i \in ReturnedAssessments :
        LET a == assessment[i]
        IN  /\ a.task_data.assignee = Some("alice")
            /\ a.task_data.deadline = Some(SomeDeadline)
            /\ SomeDeadline < now
            /\ SENTIMENT_AVAILABLE /\ a.task_data.task_description # ""
            /\ a.env.sentiment = "POSITIVE"
            /\ db_session /\ ~a.env.repFails /\ ~a.env.histFails
            /\ store # << >>
            /\ a.result.risk_score = 35
            /\ a.result.risk_level = "Medium"

\* the assignee is absent, empty, or the word "none" in any case
AssigneeMissing(assignee) ==
    \/ assignee = None
    \/ assignee = Some("")
    \/ \E word \in {"none", "None", "NONE"} : assignee = Some(word)

\* C22: "No Assignee" (+30) is awarded if and only if the assignee is missing
\* (absent or empty) or equals "none" ignoring case; with no assignee, no
\* deadline and neither the sentiment nor the history capability the result is
\* exactly [No Assignee(30), No Deadline(25)], score 55, level Medium.
C22_NoAssigneeFactor ==
    \A i \in ReturnedAssessments :
        LET a == assessment[i]
            r == a.result
        IN  /\ AssigneeMissing(a.task_data.assignee) <=>
                  FactorsOf(r, "assignee_risk") = {<<"No Assignee", 30>>}
            /\ ~AssigneeMissing(a.task_data.assignee) =>
                  /\ FactorsOf(r, "assignee_risk") = {}
                  /\ r.total_risk_breakdown["assignee_risk"] = 0
            /\ (/\ a.task_data.assignee = None /\ a.task_data.deadline = None
                /\ ~SENTIMENT_AVAILABLE /\ ~db_session) =>
                  /\ r.risk_factors = << [factor |-> "No Assignee", points |-> 30],
                                         [factor |-> "No Deadline", points |-> 25] >>
                  /\ r.risk_score = 55
                  /\ r.risk_level = "Medium"

\* scenario A: a described task without assignee and deadline, assessed with
\* neither capability
C22_Witness ==
    \E i \in ReturnedAssessments :
        LET a == assessment[i]
        IN  /\ a.task_data.assignee = None
            /\ a.task_data.deadline = None
            /\ a.task_data.task_description # ""
            /\ ~SENTIMENT_AVAILABLE /\ ~db_session
            /\ a.result.risk_score = 55

\* the number of stored tasks of an assignee whose status is overdue
OverdueCount(rows, assignee) ==
    Cardinality({k \in 1..Len(rows) :
                    rows[k].assignee = assignee /\ rows[k].status = "overdue"})

\* the store was asked for the overdue tasks of the assignee and answered
HistoryCounted(a) == db_session /\ Truthy(a.task_data.assignee) /\ ~a.env.histFails

\* C24: where the store counts them, the historical-delay factor depends only
\* on the number n of stored tasks with the same assignee and status overdue:
\* n >= 3 awards +10, n in {1, 2} awards +5 and n = 0 awards 0 with no factor
\* listed; with 3 prior overdue tasks and no other factor the result is
\* [Assignee History of Delays(10)], score 10, level Low.
C24_HistoricalDelayFactor ==
    \A i \in ReturnedAssessments :
        LET a == assessment[i]
            r == a.result
            n == OverdueCount(store, a.task_data.assignee)
            others == Categories \ {"historical_risk"}
        IN  HistoryCounted(a) =>
              /\ n >= 3 =>
                    /\ FactorsOf(r, "historical_risk") = {<<"Assignee History of Delays", 10>>}
                    /\ r.total_risk_breakdown["historical_risk"] = 10
              /\ n \in {1, 2} =>
                    /\ FactorsOf(r, "historical_risk") = {<<"Assignee History of Delays", 5>>}
                    /\ r.total_risk_breakdown["historical_risk"] = 5
              /\ n = 0 =>
                    /\ FactorsOf(r, "historical_risk") = {}
                    /\ r.total_risk_breakdown["historical_risk"] = 0
              /\ (n = 3 /\ \A c \in others : r.total_risk_breakdown[c] = 0) =>
                    /\ r.risk_factors =
                           <<[factor |-> "Assignee History of Delays", points |-> 10]>>
                    /\ r.risk_score = 10
                    /\ r.risk_level = "Low"

\* scenario D: three overdue tasks of alice in the store, her new task has a
\* deadline that has not elapsed, and nothing else is found
C24_Witness ==
    \E i \in ReturnedAssessments :
        LET a == assessment[i]
        IN  /\ HistoryCounted(a)
            /\ a.task_data.assignee = Some("alice")
            /\ OverdueCount(store, Some("alice")) = 3
            /\ a.result.risk_factors =
                   <<[factor |-> "Assignee History of Delays", points |-> 10]>>
            /\ a.result.risk_score = 10

\* the classifier was called and labelled the description NEGATIVE
ClassifiedNegative(a) ==
    /\ SENTIMENT_AVAILABLE
    /\ a.task_data.task_description # ""
    /\ a.env.sentiment = "NEGATIVE"

\* the same call with another outcome of the classifier
WithSentiment(a, outcome) ==
    AssessTaskRisk(a.task_data, db_session, store, now, SENTIMENT_AVAILABLE,
                   [a.env EXCEPT !.sentiment = outcome])

\* the factors of a result outside one category, in their order
FactorsOutside(r, cat) ==
    SelectSeq(r.risk_factors, LAMBDA f : CategoryOf(f.factor) # cat)

NamedNone(assignee) == \E word \in {"none", "None", "NONE"} : assignee = Some(word)

\* C29: the pre-clamp total is at most 110 and exceeds 100 only when the
\* assignee is a non-empty string equal to "none" ignoring case, so that both
\* No Assignee and Assignee History of Delays are awarded; for a missing
\* assignee or any other name the total is at most 100 and the clamp does not
\* change the score.
C29_PreClampTotal ==
    \A i \in ReturnedAssessments :
        LET a == assessment[i]
            r == a.result
        IN  /\ r.score <= 110
            /\ r.score > 100 =>
                  /\ NamedNone(a.task_data.assignee)
                  /\ {"No Assignee", "Assignee History of Delays"} \subseteq FactorNames(r)
            /\ ~NamedNone(a.task_data.assignee) =>
                  /\ r.score <= 100
                  /\ r.risk_score = r.score
            /\ a.task_data.assignee \in {None, Some("")} =>
                  "Assignee History of Delays" \notin FactorNames(r)
            /\ (a.task_data.assignee # None /\ ~AssigneeMissing(a.task_data.assignee)) =>
                  "No Assignee" \notin FactorNames(r)

\* the assignee "None" with three overdue tasks of "None" in the store and
\* the three other categories awarded: the total is 110 and the score 100
C29_Witness ==
    \E i \in ReturnedAssessments :
        LET a == assessment[i]
        IN  /\ a.task_data.assignee = Some("None")
            /\ a.result.score = 110
            /\ a.result.risk_score = 100
            /\ Len(a.result.risk_factors) = 5

(***************************************************************************)
(* The repetition check over a long Task table.                            *)
(***************************************************************************)
\* the stored tasks other than the assessed one, in the order of the store
OtherTasks(a) == SelectSeq(store, LAMBDA t : t.id # a.task_data.task_id)

\* 2 * matches / (len(a) + len(b)) compared with 7/10, in whole numbers
RatioVersus70(task_desc, stored) ==
    LET a == Lower(task_desc)
        b == Lower(stored)
        total == StrLen(a) + StrLen(b)
    IN  IF total = 0 THEN 1
        ELSE IF 20 * MatchingChars(a, b) > 7 * total THEN 1
        ELSE IF 20 * MatchingChars(a, b) = 7 * total THEN 0
        ELSE -1

\* the stored task t ends the scan
Qualifies(a, t) ==
    /\ RatioVersus70(a.task_data.task_description, t.task_description) = 1
    /\ t.status \in {"pending", "in_progress"}

\* positions of the tasks that end the scan among the first 10 others
QualifyingPositions(a) ==
    {j \in 1..Len(OtherTasks(a)) : j <= 10 /\ Qualifies(a, OtherTasks(a)[j])}

Minimum(S) == CHOOSE m \in S : \A n \in S : m <= n

\* the repetition check of the assessment a ran its query
Scanned(a) == db_session /\ ~a.env.repFails

\* C23: the repetition check compares at most 10 stored tasks other than the
\* assessed one, in the order of the store, and returns 15 at the first whose
\* similarity is above 0.7 and whose status is pending or in_progress without
\* comparing later ones; a similar task of another status and a similarity of
\* exactly 0.7 neither award points nor end the scan; without such a task the
\* result is 0.
C23_RepetitionScan ==
    \A i \in ReturnedAssessments :
        LET a == assessment[i]
            others == OtherTasks(a)
            hits == QualifyingPositions(a)
            scan == ScanPastTasks(PastTasks(store, a.task_data.task_id),
                                  a.task_data.task_description, 1)
        IN  Scanned(a) =>
              /\ FactorsOf(a.result, "repetition_risk")
                     = IF hits # {} THEN {<<"Topic Repeated", 15>>} ELSE {}
              /\ a.result.total_risk_breakdown["repetition_risk"] = IF hits # {} THEN 15 ELSE 0
              /\ scan.examined <= 10
              /\ scan.examined = IF hits # {} THEN Minimum(hits)
                                 ELSE IF Len(others) <= 10 THEN Len(others) ELSE 10
              /\ \A j \in 1..scan.examined :
                    (\/ others[j].status \notin {"pending", "in_progress"}
                     \/ RatioVersus70(a.task_data.task_description,
                                      others[j].task_description) <= 0)
                        => (j < scan.examined \/ scan.value = 0)

\* a scan that passed a completed similar task and a pending task of
\* similarity 0.7 and ended at a later task, ahead of the last stored one
C23_Witness ==
    \E i \in ReturnedAssessments :
        LET a == assessment[i]
            others == OtherTasks(a)
            scan == ScanPastTasks(PastTasks(store, a.task_data.task_id),
                                  a.task_data.task_description, 1)
        IN  /\ Scanned(a)
            /\ "Topic Repeated" \in FactorNames(a.result)
            /\ scan.examined < Len(others)
            /\ \E j \in 1..(scan.examined - 1) :
                  /\ others[j].status = "completed"
                  /\ RatioVersus70(a.task_data.task_description,
                                   others[j].task_description) = 1
            /\ \E j \in 1..(scan.examined - 1) :
                  /\ others[j].status = "pending"
                  /\ RatioVersus70(a.task_data.task_description,
                                   others[j].task_description) = 0

\* a similar pending task that is the 11th other task is not reached, and one
\* that is the 11th row is reached when the assessed task is the first row
C23_WitnessLimit ==
    \E i \in ReturnedAssessments :
        LET a == assessment[i]
            others == OtherTasks(a)
        IN  /\ Scanned(a)
            /\ Len(others) > 10
            /\ Qualifies(a, others[11])
            /\ "Topic Repeated" \notin FactorNames(a.result)

(***************************************************************************)
(* The order of the raw candidates.                                        *)
(***************************************************************************)
\* the matches of each pattern of a table in each sentence of a text
MatchesOf(patterns, sentences) ==
    [s \in 1..Len(sentences), p \in 1..Len(patterns) |->
        FindIter(patterns[p], Lower(sentences[s]), 1)]

\* <<sentence, pattern, match>> for every match there is
MatchTriples(found) ==
    UNION { {<<sp[1], sp[2], k>> : k \in 1..Len(found[sp])} : sp \in DOMAIN found }

\* sentence order, then pattern order, then match order
Precedes(t, u) ==
    \/ t[1] < u[1]
    \/ t[1] = u[1] /\ t[2] < u[2]
    \/ t[1] = u[1] /\ t[2] = u[2] /\ t[3] < u[3]

\* the place of a match in that order
Rank(t, triples) == 1 + Cardinality({u \in triples : Precedes(u, t)})

\* raw is the list of all the matches of the patterns in the sentences of
\* text, each at its place in the order, the matches of one pattern in one
\* sentence from left to right
InOrder(raw, patterns, text) ==
    \A sentences \in {SplitSentences(text)} :
       \A found \in {MatchesOf(patterns, sentences)} :
          \A triples \in {MatchTriples(found)} :
             /\ Len(raw) = Cardinality(triples)
             /\ \A t \in triples :
                   LET item == raw[Rank(t, triples)]
                       match == found[t[1], t[2]][t[3]]
                   IN  /\ TextOf(item) = Strip(Group(match, sentences[t[1]]))
                       /\ item.source_sentence = Strip(sentences[t[1]])
                       /\ item.pattern_matched = t[2]
                       /\ \A k \in 1..(t[3] - 1) :
                             found[t[1], t[2]][k].start < match.start

\* sub is full with some of its elements left out
RECURSIVE IsSubsequence(_, _)
IsSubsequence(sub, full) ==
    IF sub = << >> THEN TRUE
    ELSE IF full = << >> THEN FALSE
    ELSE IF Head(sub) = Head(full) THEN IsSubsequence(Tail(sub), Tail(full))
    ELSE IsSubsequence(sub, Tail(full))

\* C26: the raw candidates are in sentence order, then in the order of the
\* pattern table within a sentence, then in match order within a pattern;
\* several matches in one sentence are all kept; and the deduplicated output
\* is a subsequence of the raw candidates.
C26_RawCandidateOrder ==
    \A e \in DOMAIN extraction :
        LET x == extraction[e]
            r == x.result
        IN  ~r.raised =>
              /\ InOrder(x.taskMatches, TASK_PATTERNS, FullText(x.segments))
              /\ InOrder(x.decisionMatches, DECISION_PATTERNS, FullText(x.segments))
              /\ IsSubsequence(Candidates(r.tasks), Candidates(x.taskMatches))
              /\ IsSubsequence(Candidates(r.decisions), Candidates(x.decisionMatches))

\* "Alice must sign. We will ship, Bob will ship." and then "We need to call
\* Bob, Alice will help.": the fourth pattern in the first sentence comes
\* before the first pattern in the second, which matches twice; in the third
\* sentence "help" of the first pattern comes before "call Bob" of the fifth,
\* which stands before it in the text; the second "ship" is dropped
C26_Witness ==
    \E e \in DOMAIN extraction :
        LET x == extraction[e]
            r == x.result
        IN  /\ ~r.raised
            /\ Texts(x.taskMatches) = <<"sign", "ship", "ship", "help", "call Bob">>
            /\ [i \in 1..5 |-> x.taskMatches[i].pattern_matched] = <<4, 1, 1, 1, 5>>
            /\ Texts(r.tasks) = <<"sign", "ship", "help", "call Bob">>

\* "We agreed to pay, we decided to wait.": the decision of the first pattern
\* comes before the one of the second, which stands before it in the text
C26_WitnessDecisions ==
    \E e \in DOMAIN extraction :
        LET x == extraction[e]
        IN  /\ ~x.result.raised
            /\ Len(x.segments) = 1
            /\ Texts(x.decisionMatches) = <<"wait", "pay">>
            /\ Texts(x.result.decisions) = <<"wait", "pay">>

(***************************************************************************)
(* Properties of the requests that write the Task table and the graph.     *)
(***************************************************************************)
\* the stored tasks of a meeting
RowsOf(meeting_id) == {i \in 1..Len(store) : store[i].meeting_id = meeting_id}

\* C27: within one upload all assessments are computed before any task of
\* the batch is added to the Task table: the table an assessment reads holds
\* no task of the meeting being uploaded, so Topic Repeated and Assignee
\* History of Delays are never awarded for a task of the same batch, and the
\* assessment of a task is the one it gets from the table without its batch,
\* whichever tasks of the batch were assessed before it.
C27_BatchNotSeen ==
    /\ \A u \in DOMAIN uploads :
          RowsOf(u) # {} => /\ uploads[u].pc = "done"
                            /\ uploads[u].assessed = Len(uploads[u].tasks)
                            /\ Cardinality(RowsOf(u)) = Len(uploads[u].tasks)
    /\ \A i \in ReturnedAssessments :
          LET a == assessment[i]
              others == SelectSeq(store, LAMBDA t : t.meeting_id # a.meeting_id)
          IN  /\ RowsOf(a.meeting_id) = {}
              /\ uploads[a.meeting_id].pc # "done"
              /\ a.result = AssessTaskRisk(a.task_data, db_session, others,
                                           a.result.assessment_timestamp,
                                           SENTIMENT_AVAILABLE, a.env)

\* the second task of a batch was assessed, a task similar to the first one
\* of the batch, and Topic Repeated was not awarded
C27_Witness ==
    \E i \in ReturnedAssessments :
        LET a == assessment[i]
            up == uploads[a.meeting_id]
        IN  /\ up.assessed = 2
            /\ up.tasks[1].task = "Fix the login bug"
            /\ up.tasks[2].task = "fix the login bugs"
            /\ "Topic Repeated" \notin FactorNames(a.result)

\* the same, with a similar pending task of an earlier upload in the table:
\* Topic Repeated is awarded for that one
C27_WitnessEarlierUpload ==
    \E i \in ReturnedAssessments :
        LET a == assessment[i]
            up == uploads[a.meeting_id]
        IN  /\ up.assessed = 2
            /\ a.meeting_id = 2
            /\ RowsOf(1) # {}
            /\ "Topic Repeated" \in FactorNames(a.result)

\* C28: once upload_meeting has completed successfully for a new meeting
\* with at least one extracted task, the graph holds a CREATED_IN relationship
\* from the node of each of its tasks to the node of the meeting, and the
\* query of the meeting graph returns those tasks.
C28_TasksLinkedToMeeting ==
    \A u \in DOMAIN uploads :
        (uploads[u].pc = "done" /\ Len(uploads[u].tasks) >= 1) =>
            /\ \A i \in RowsOf(u) :
                  <<"CREATED_IN", <<"Task", store[i].id>>, <<"Meeting", u>>>> \in graph.rels
            /\ MeetingGraphTasks(graph, u) = {store[i].id : i \in RowsOf(u)}

\* the tasks whose records carry a status that the request op wrote
WrittenBy(op) == {i \in 1..Len(store) : store[i].status_by = op}

\* C30: starting from an empty Task table, an upload creates tasks with status
\* pending only; a task is overdue only if get_overdue_tasks found its
\* deadline before now and its status other than completed, or if update_task
\* wrote the status; so Assignee History of Delays is awarded for an assignee
\* only when one of the two requests has left a task of that assignee overdue.
C30_OverdueOnlyByRequest ==
    /\ \A i \in WrittenBy("upload_meeting") : store[i].status = "pending"
    /\ \A i \in WrittenBy("get_overdue_tasks") :
          store[i].status = "overdue" /\ store[i].was_due
    /\ \A i \in 1..Len(store) :
          store[i].status = "overdue" =>
              store[i].status_by \in {"get_overdue_tasks", "update_task"}
    /\ \A k \in ReturnedAssessments :
          "Assignee History of Delays" \in FactorNames(assessment[k].result) =>
              \E i \in WrittenBy("get_overdue_tasks") \cup WrittenBy("update_task") :
                  /\ store[i].assignee = assessment[k].task_data.assignee
                  /\ store[i].status = "overdue"

\* the task of a second upload is assessed after get_overdue_tasks marked the
\* task of the first upload, of the same assignee, and the factor is awarded
C30_Witness ==
    \E k \in ReturnedAssessments :
        /\ "Assignee History of Delays" \in FactorNames(assessment[k].result)
        /\ assessment[k].meeting_id = 2
        /\ \E i \in WrittenBy("get_overdue_tasks") :
              store[i].assignee = assessment[k].task_data.assignee

\* update_task wrote the status overdue of a task, and the factor is awarded
\* for its assignee
C30_WitnessUpdate ==
    \E k \in ReturnedAssessments :
        /\ "Assignee History of Delays" \in FactorNames(assessment[k].result)
        /\ WrittenBy("get_overdue_tasks") = {}
        /\ \E i \in WrittenBy("update_task") :
              store[i].assignee = assessment[k].task_data.assignee

====
